---- MODULE Spec2Model ----
(***************************************************************************)
(* Two MessageHandler endpoints (src/src/messageHandler.ts) joined by one  *)
(* in-order channel per direction.  Each endpoint runs promisify, exposes  *)
(* a host, calls the peer's host through remote stubs and consumes streams *)
(* through the async iterator that remoteMethod attaches to a call.        *)
(***************************************************************************)
EXTENDS Integers, Sequences, FiniteSets, TLC

\* ------------------------------------------------------------------ bounds
MaxCalls == 2
MaxItems == 2
MaxArg == 2
MaxStray == 1
MaxDepth == 4
MaxPath == 3

\* --------------------------------------------------------------- constants
Endpoints == {"A", "B"}

Peer(e) == IF e = "A" THEN "B" ELSE "A"

\* const enum MessageType
MessageType == {"Initiate", "Request", "Resolve", "Reject", "RequestNextItem", "CancelIterator"}

\* The host both endpoints expose: a plain method, an async generator and a
\* method that throws.
HostMethods == {"increment", "getItems", "fail"}

Args == 1..MaxArg

\* ------------------------------------------------------------------ values
\* `undefined`: the result of a Resolve that carries none.
Undefined == [k |-> "undefined"]

Num(n) == [k |-> "num", v |-> n]

\* An IteratorResult { done, value }.
IterResult(d, val) == [k |-> "iter", done |-> d, value |-> val]

\* An Error instance with a custom field `code`.
ErrorOf(msg, c) == [t |-> "Error", message |-> msg, stack |-> "stack:" \o msg, code |-> c]

NoIteratorError(reqId) == ErrorOf("No async iterators found for request", reqId)

Str(x) == [k |-> "str", v |-> x]

\* A plain object with one field, and one that has a field _type as well.
PlainObject(c) == [t |-> "Object", code |-> c]

TypedObject(ty, c) == [t |-> "Object", _type |-> ty, code |-> c]

\* err instanceof Error
IsError(err) == "t" \in DOMAIN err /\ err.t = "Error"

\* serializeError: an Error becomes a plain object with its own fields (clone
\* without functions, which also finds `name` on the prototype), the marker
\* _type = Reject, and message and stack; anything else goes as is.
serializeError(err) ==
    IF IsError(err)
    THEN [x \in DOMAIN err \cup {"_type", "name"} |->
            CASE x = "t" -> "Object"
              [] x = "_type" -> "Reject"
              [] x = "name" -> "Error"
              [] OTHER -> err[x]]
    ELSE err

\* deserializeError: an object that carries the marker is assigned, field by
\* field, onto a new Error; anything else is returned as is.
deserializeError(err) ==
    IF "_type" \in DOMAIN err /\ err._type = "Reject"
    THEN [x \in DOMAIN err |-> IF x = "t" THEN "Error" ELSE err[x]]
    ELSE err

\* ------------------------------------------------------------------- state
VARIABLES
    lastReqId,        \* [e -> Nat]: MessageHandler.lastReqId
    requests,         \* [e -> [reqId -> handle]]: MessageHandler.requests
    asyncIterators,   \* [e -> [reqId -> generator]]: MessageHandler.asyncIterators
    remote,           \* [e -> surface or Undefined]: MessageHandler.remote
    initiateError,    \* [e -> BOOLEAN]: MessageHandler.initiateError is set
    handshake,        \* [e -> "idle" | "pending" | "done" | "failed"]: promisify
    listening,        \* [e -> BOOLEAN]: the message listener is attached
    chan,             \* [e -> Seq(message)]: messages in flight to e
    tasks,            \* [e -> set of suspended handler continuations]
    calls,            \* [e -> [reqId -> the caller's view of a stub call]]
    served,           \* [e -> [reqId -> the exposer's record of a Request]]
    settled,          \* [e -> [handle -> times resolve/reject was called]]
    strays,           \* number of late or duplicate replies put on the channel
    dropped,          \* [e -> reqIds of the replies handleResponse found no entry for]
    propagated,       \* [e -> Seq(message)]: events the listener left to other listeners
    errored,          \* [e -> BOOLEAN]: the worker's 'error' event has reached e's listener
    host              \* [e -> graph]: MessageHandler.host, the object e exposes

vars == <<lastReqId, requests, asyncIterators, remote, initiateError, handshake,
          listening, chan, tasks, calls, served, settled, strays, dropped, propagated, errored, host>>

\* A completion handle: the promise {resolve, reject} stored in `requests`.
\* step 0 is the promise of the call (or of sendInitiate), step k > 0 the
\* promise the k-th next() of the call's iterator returned.
Handle(reqId, step) == <<reqId, step>>

\* ----------------------------------------------------------------- helpers
\* Mutant: the channel hands over the newest message first.
Post_Overtaking(ch, to, msg) == [ch EXCEPT ![to] = <<msg>> \o @]

Post(ch, to, msg) == [ch EXCEPT ![to] = Append(@, msg)]

Consume(ch, e) == [ch EXCEPT ![e] = Tail(@)]

Put(f, key, val) == [x \in DOMAIN f \cup {key} |-> IF x = key THEN val ELSE f[x]]

Drop(f, key) == [x \in DOMAIN f \ {key} |-> f[x]]

TotalCalls == Cardinality(DOMAIN calls["A"]) + Cardinality(DOMAIN calls["B"])

\* -------------------------------------------------------------- the host
\* What calling host[method](args) settles to.
HostOutcome(method) ==
    CASE method = "getItems" -> "stream"
      [] method = "fail" -> "throw"
      [] OTHER -> "plain"

HostResult(method, args) == Num(args + 1)

\* What fail(n) throws: for most n an Error "boom" with the custom field
\* code = n, for some n a value that is no Error.
ThrownValue(n) ==
    CASE n = 101 -> Str("oops")
      [] n = 102 -> PlainObject(n)
      [] n = 103 -> TypedObject("Reject", n)
      [] n = 104 -> Undefined
      [] n = 105 -> TypedObject("Request", n)
      [] OTHER -> ErrorOf("boom", n)

\* The arguments that make fail throw each kind of value.
ThrowArgs == {42, 101, 102, 103, 104, 105}

HostError(method, args) == ThrownValue(args)

\* The i-th item (from 0) of getItems(args).
HostItem(args, i) == Num(10 * args + i)

\* ------------------------------------------------------------ wire messages
InitiateMessage(reqId, surface) == [type |-> "Initiate", reqId |-> reqId, remote |-> surface]

\* Mutant: the arguments are not put into the message.
RequestMessage_NoArgs(reqId, children, method, args) ==
    [type |-> "Request", reqId |-> reqId, children |-> children, method |-> method, args |-> 0]

RequestMessage(reqId, children, method, args) ==
    [type |-> "Request", reqId |-> reqId, children |-> children, method |-> method, args |-> args]

ResolveMessage(reqId, result) == [type |-> "Resolve", reqId |-> reqId, result |-> result]

RejectMessage(reqId, error) == [type |-> "Reject", reqId |-> reqId, error |-> error]

RequestNextItemMessage(reqId) == [type |-> "RequestNextItem", reqId |-> reqId]

CancelIteratorMessage(reqId) == [type |-> "CancelIterator", reqId |-> reqId]

\* ---------------------------------------------------------- request table
\* Mutant: the counter is not read, every id is 0.
newReqId_Zero(e) == 0

\* newReqId: return this.lastReqId++
newReqId(e) == lastReqId[e]

\* sendRequest: post the message, then store {resolve, reject} under msg.reqId.
Register(reqs, reqId, handle) == Put(reqs, reqId, handle)

\* Mutant: the lookup ignores msg.reqId and takes the oldest pending entry.
LookupRequest_First(reqs, reqId) ==
    IF DOMAIN reqs = {} THEN -1
    ELSE CHOOSE k \in DOMAIN reqs : \A j \in DOMAIN reqs : k <= j

\* handleResponse: const req = this.requests.get(msg.reqId); the key of the
\* entry found, or -1 for undefined.
LookupRequest(reqs, reqId) == IF reqId \in DOMAIN reqs THEN reqId ELSE -1

\* Mutant: the entry is left in the table.
DeleteRequest_Keep(reqs, reqId) == reqs

\* handleResponse: this.requests.delete(msg.reqId)
DeleteRequest(reqs, reqId) == Drop(reqs, reqId)

\* Mutant: the Reject is put on the endpoint's own inbox.
postError_Self(ch, e, reqId, err) == Post(ch, e, RejectMessage(reqId, serializeError(err)))

\* Mutant: the error is swallowed, nothing is posted.
postError_Silent(ch, e, reqId, err) == ch

\* postError: post a Reject that carries the serialized error.
postError(ch, e, reqId, err) == Post(ch, Peer(e), RejectMessage(reqId, serializeError(err)))

\* One more call of resolve or reject on a handle.
Settle(st, h) == Put(st, h, (IF h \in DOMAIN st THEN st[h] ELSE 0) + 1)

\* ------------------------------------------------------------------- init
EmptyMap == [x \in {} |-> 0]

\* ---------------------------------------------------------- object graphs
\* A value of the host: a function (named by its identity), a reference to an
\* object of the graph, or a scalar (Num, Str).
Fn(f) == [k |-> "fn", v |-> f]

Ref(o) == [k |-> "ref", v |-> o]

\* const FunctionSymbol: the string that marks a function in a clone.
FunctionSymbol == Str("FunctionSymbol")

\* value === FunctionSymbol
IsMarker(v) == v.k = "str" /\ v.v = "FunctionSymbol"

\* The arrow function hydrateRemote puts in place of a marker: it closes over
\* `children` and `key`.
Stub(children, method) == [k |-> "stub", children |-> children, method |-> method]

Field(key, val) == [key |-> key, val |-> val]

\* An object: its own properties in insertion order, and its prototype
\* (0 for Object.prototype, which ends the chain).
Obj(own, proto) == [own |-> own, proto |-> proto]

\* A graph: the objects by identity, and the one the endpoint exposes.
Graph(root, objs) == [root |-> root, objs |-> objs]

OwnKeys(obj) == {obj.own[i].key : i \in 1..Len(obj.own)}

OwnValue(obj, key) == obj.own[CHOOSE i \in 1..Len(obj.own) : obj.own[i].key = key].val

\* name in {}: the properties every plain object inherits from Object.prototype.
ObjectPrototypeNames == {"constructor", "toString", "valueOf", "hasOwnProperty"}

\* obj[key]: the own property, or else the first one up the prototype chain.
RECURSIVE Get(_, _, _)
Get(objs, o, key) ==
    IF o = 0 THEN Undefined
    ELSE IF key \in OwnKeys(objs[o]) THEN OwnValue(objs[o], key)
    ELSE Get(objs, objs[o].proto, key)

\* The properties clone adds to its result from the prototype chain: those of
\* each prototype, from the nearest up, whose name is not yet `in result`.
RECURSIVE PrototypeFields(_, _, _)
PrototypeFields(objs, p, have) ==
    IF p = 0 THEN <<>>
    ELSE SelectSeq(objs[p].own, LAMBDA f : f.key \notin have)
            \o PrototypeFields(objs, objs[p].proto, have \cup OwnKeys(objs[p]))

\* The properties clone visits for obj, in the order it adds them.
CloneFields(objs, o) ==
    objs[o].own \o PrototypeFields(objs, objs[o].proto, OwnKeys(objs[o]) \cup ObjectPrototypeNames)

\* Mutant: the map of cloned objects is never consulted.
AlreadyCloned_Never(st, o) == FALSE

\* clonedObjs.get(obj) !== undefined
AlreadyCloned(st, o) == o \in DOMAIN st.objs

\* The state of one run of clone: the objects created so far (clonedObjs, a
\* clone carrying the identity of its source), how many times each source was
\* cloned, whether the recursion ran out of stack, and the value returned.
CloneStart == [objs |-> EmptyMap, made |-> EmptyMap, overflow |-> FALSE, ret |-> Undefined]

Count(f, key) == IF key \in DOMAIN f THEN f[key] ELSE 0

AddField(objs, o, key, val) == [objs EXCEPT ![o].own = Append(@, Field(key, val))]

\* clone(obj, true, clonedObjs) at recursion depth `depth`.
RECURSIVE cloneValue(_, _, _, _)
RECURSIVE cloneProps(_, _, _, _, _, _)
cloneValue(src, val, st, depth) ==
    CASE val.k = "fn" -> [st EXCEPT !.ret = FunctionSymbol]
      [] val.k = "ref" ->
            IF AlreadyCloned(st, val.v) THEN [st EXCEPT !.ret = val]
            ELSE IF depth >= MaxDepth THEN [st EXCEPT !.overflow = TRUE]
            ELSE LET st1 == [st EXCEPT !.objs = Put(@, val.v, Obj(<<>>, 0)),
                                       !.made = Put(@, val.v, Count(@, val.v) + 1)]
                     st2 == cloneProps(src, val.v, CloneFields(src, val.v), 1, st1, depth + 1)
                 IN  [st2 EXCEPT !.ret = val]
      [] OTHER -> [st EXCEPT !.ret = val]

\* The two loops of clone over the properties of obj, from the i-th on.
cloneProps(src, o, fields, i, st, depth) ==
    IF i > Len(fields) \/ st.overflow THEN st
    ELSE LET st1 == cloneValue(src, fields[i].val, st, depth)
             st2 == IF st1.overflow THEN st1
                    ELSE [st1 EXCEPT !.objs = AddField(@, o, fields[i].key, st1.ret)]
         IN  cloneProps(src, o, fields, i + 1, st2, depth)

cloneRun(h) == cloneValue(h.objs, Ref(h.root), CloneStart, 0)

\* clone(this.host) throws (the recursion overflows the stack).
cloneThrows(h) == h # Undefined /\ cloneRun(h).overflow

\* clone(this.host): the graph the Initiate carries; undefined for an endpoint
\* that was given no host (the default branch of clone's switch).
clone(h) == IF h = Undefined THEN Undefined ELSE Graph(h.root, cloneRun(h).objs)

\* Mutant: a nested object is hydrated with the path of its parent.
ChildPath_Same(children, key) == children

\* children.concat(key)
ChildPath(children, key) == Append(children, key)

\* hydratedObjs.has(value)
Hydrated(st, o) == o \in st.seen

SetField(objs, o, i, val) == [objs EXCEPT ![o].own[i].val = val]

\* hydrateRemote(children, obj, hydratedObjs) at recursion depth `depth`: the
\* keys are those obj had on entry, each value is read when its key is reached.
RECURSIVE hydrateObj(_, _, _, _)
RECURSIVE hydrateKeys(_, _, _, _, _)
hydrateObj(children, o, st, depth) ==
    IF depth >= MaxDepth THEN [st EXCEPT !.overflow = TRUE]
    ELSE hydrateKeys(children, o, 1,
            [st EXCEPT !.seen = @ \cup {o}, !.made = Put(@, o, Count(@, o) + 1)], depth + 1)

hydrateKeys(children, o, i, st, depth) ==
    IF i > Len(st.objs[o].own) \/ st.overflow THEN st
    ELSE LET key == st.objs[o].own[i].key
             value == st.objs[o].own[i].val
             st1 == CASE IsMarker(value) ->
                            [st EXCEPT !.objs = SetField(@, o, i, Stub(children, key))]
                      [] value.k = "ref" /\ ~Hydrated(st, value.v) ->
                            hydrateObj(ChildPath(children, key), value.v, st, depth)
                      [] OTHER -> st
         IN  hydrateKeys(children, o, i + 1, st1, depth)

hydrateRun(surface) ==
    hydrateObj(<<>>, surface.root,
               [objs |-> surface.objs, seen |-> {}, made |-> EmptyMap, overflow |-> FALSE], 0)

\* this.hydrateRemote([], remote): the remote with its markers made stubs.
\* handleInitiate hydrates only an object: a surface that is undefined is the
\* remote as it is.
hydrateRemote(surface) ==
    IF surface = Undefined THEN Undefined
    ELSE [x \in DOMAIN surface |-> IF x = "objs" THEN hydrateRun(surface).objs ELSE surface[x]]

\* A surface nested deeper than the stack of the endpoint that receives it
\* allows: hydrateRemote, which recurses once per level, throws on it.
TooDeep(surface) == Put(surface, "deep", TRUE)

\* handleInitiate's try block throws: hydrateRemote runs for an object that is
\* not null and fails on it.
hydrateRemoteThrows(surface) ==
    surface # Undefined /\ ("deep" \in DOMAIN surface \/ hydrateRun(surface).overflow)

\* The value a chain of property reads from the root of a graph ends at:
\* remote.a.b.c, or Undefined where a read fails.
RECURSIVE Read(_, _, _)
Read(objs, o, path) ==
    IF path = <<>> THEN Ref(o)
    ELSE LET v == Get(objs, o, Head(path)) IN
         IF Len(path) = 1 THEN v
         ELSE IF v.k = "ref" THEN Read(objs, v.v, Tail(path)) ELSE Undefined

Access(g, path) == Read(g.objs, g.root, path)

\* The object whose property the last key of the path names.
Front(path) == SubSeq(path, 1, Len(path) - 1)

Parent(g, path) == Access(g, Front(path))

\* The paths of at most n reads that lead from object o to a stub.
RECURSIVE StubPaths(_, _, _)
StubPaths(objs, o, n) ==
    IF n = 0 THEN {}
    ELSE UNION {
            LET v == OwnValue(objs[o], key) IN
            CASE v.k = "stub" -> {<<key>>}
              [] v.k = "ref" -> {<<key>> \o p : p \in StubPaths(objs, v.v, n - 1)}
              [] OTHER -> {}
            : key \in OwnKeys(objs[o])}

\* children.reduce((obj, key) => obj[key], this.host) and obj[method]: the
\* object reached and its member, or receiver 0 where the walk fails.
Target(h, children, method) ==
    LET obj == Access(h, children)
    IN  IF obj.k = "ref"
        THEN [receiver |-> obj.v, member |-> Get(h.objs, obj.v, method)]
        ELSE [receiver |-> 0, member |-> Undefined]

\* ------------------------------------------------------------ test hosts
\* The host of the README's examples: own functions on one plain object.
FlatHost ==
    Graph(1, 1 :> Obj(<<Field("increment", Fn("increment")),
                        Field("getItems", Fn("getItems")),
                        Field("fail", Fn("fail"))>>, 0))

\* a.self = a
CircularHost ==
    Graph(1, 1 :> Obj(<<Field("increment", Fn("a.increment")),
                        Field("self", Ref(1)),
                        Field("level", Num(7))>>, 0))

\* A plain object with a child that refers back to it.
NestedHost ==
    Graph(1, 1 :> Obj(<<Field("increment", Fn("increment")), Field("http", Ref(2))>>, 0)
          @@ 2 :> Obj(<<Field("fetch", Fn("http.fetch")), Field("self", Ref(1))>>, 0))

\* An instance of a class that extends another, reachable under two keys:
\* object 3 is Logger.prototype, object 4 the prototype of its base class.
ClassHost ==
    Graph(1, 1 :> Obj(<<Field("logger", Ref(2)), Field("http", Ref(2))>>, 0)
          @@ 2 :> Obj(<<Field("level", Num(1))>>, 3)
          @@ 3 :> Obj(<<Field("constructor", Fn("Logger")), Field("log", Fn("Logger.log")),
                        Field("toString", Fn("Logger.toString"))>>, 4)
          @@ 4 :> Obj(<<Field("constructor", Fn("Base")), Field("log", Fn("Base.log")),
                        Field("flush", Fn("Base.flush"))>>, 0))

HostGraphs == {FlatHost, CircularHost, NestedHost, ClassHost}

\* The full-duplex host: relay awaits a call of the remote's increment before
\* it returns.
DuplexHost ==
    Graph(1, 1 :> Obj(<<Field("increment", Fn("increment")), Field("relay", Fn("relay"))>>, 0))

\* The state of two endpoints just constructed.
Constructed ==
    /\ lastReqId = [e \in Endpoints |-> 0]
    /\ requests = [e \in Endpoints |-> EmptyMap]
    /\ asyncIterators = [e \in Endpoints |-> EmptyMap]
    /\ remote = [e \in Endpoints |-> Undefined]
    /\ initiateError = [e \in Endpoints |-> FALSE]
    /\ handshake = [e \in Endpoints |-> "idle"]
    /\ listening = [e \in Endpoints |-> FALSE]
    /\ chan = [e \in Endpoints |-> <<>>]
    /\ tasks = [e \in Endpoints |-> {}]
    /\ calls = [e \in Endpoints |-> EmptyMap]
    /\ served = [e \in Endpoints |-> EmptyMap]
    /\ settled = [e \in Endpoints |-> EmptyMap]
    /\ strays = 0
    /\ dropped = [e \in Endpoints |-> {}]
    /\ propagated = [e \in Endpoints |-> <<>>]
    /\ errored = [e \in Endpoints |-> FALSE]

Init ==
    /\ Constructed
    /\ host = [e \in Endpoints |-> FlatHost]

\* Both endpoints expose the full-duplex host.
InitDuplex ==
    /\ Constructed
    /\ host = [e \in Endpoints |-> DuplexHost]

\* Each endpoint exposes one of the test hosts.
InitGraph ==
    /\ Constructed
    /\ host \in [Endpoints -> HostGraphs]

\* Each endpoint exposes one of the test hosts or was given no host at all
\* (promisify(worker) without a second argument).
InitOptional ==
    /\ Constructed
    /\ host \in [Endpoints -> HostGraphs \cup {Undefined}]

\* Mutant: the listener is not run while a handleRequest of the endpoint is
\* suspended.
Inbox_Blocking(e, type) ==
    listening[e] /\ chan[e] # <<>> /\ Head(chan[e]).type = type /\ tasks[e] = {}

\* The head of e's inbox is a message of this kind and e is listening
\* (MessageHandler.handle's switch).
Inbox(e, type) == listening[e] /\ chan[e] # <<>> /\ Head(chan[e]).type = type

\* -------------------------------------------------------------- handshake
\* promisify: attach the listener and run sendInitiate up to its await; the
\* Initiate carries `surface`, the clone of the host.
sendInitiate(e, surface) ==
    /\ handshake[e] = "idle"
    /\ LET reqId == newReqId(e) IN
        /\ lastReqId' = [lastReqId EXCEPT ![e] = @ + 1]
        /\ chan' = Post(chan, Peer(e), InitiateMessage(reqId, surface))
        /\ requests' = [requests EXCEPT ![e] = Register(@, reqId, Handle(reqId, 0))]
    /\ listening' = [listening EXCEPT ![e] = TRUE]
    /\ handshake' = [handshake EXCEPT ![e] = "pending"]
    /\ UNCHANGED <<host, asyncIterators, remote, initiateError, tasks, calls, served, settled, strays, dropped, propagated, errored>>

\* sendInitiate throws before its await (clone or the send fails): the reqId
\* is spent, nothing is registered, and promisify removes the listener.
sendInitiateThrows(e) ==
    /\ handshake[e] = "idle"
    /\ lastReqId' = [lastReqId EXCEPT ![e] = @ + 1]
    /\ handshake' = [handshake EXCEPT ![e] = "failed"]
    /\ UNCHANGED <<host, requests, chan, listening, asyncIterators, remote, initiateError, tasks,
                   calls, served, settled, strays, dropped, propagated, errored>>

Promisify(e) ==
    IF cloneThrows(host[e]) THEN sendInitiateThrows(e) ELSE sendInitiate(e, clone(host[e]))

\* promisify with a host the peer cannot hydrate.
PromisifyDeep(e) == sendInitiate(e, TooDeep(clone(host[e])))

\* Mutant: the remote is built but the Initiate is never acknowledged.
handleInitiate_Mute(e) ==
    /\ Inbox(e, "Initiate")
    /\ chan' = Consume(chan, e)
    /\ remote' = [remote EXCEPT ![e] = hydrateRemote(Head(chan[e]).remote)]
    /\ UNCHANGED <<host, lastReqId, requests, asyncIterators, initiateError, handshake, listening,
                   tasks, calls, served, settled, strays, dropped, propagated, errored>>

\* handleInitiate: build the remote, acknowledge; on failure reject the peer's
\* sendInitiate and remember the error for our own.
handleInitiate(e) ==
    /\ Inbox(e, "Initiate")
    /\ LET msg == Head(chan[e]) IN
        IF hydrateRemoteThrows(msg.remote)
        THEN /\ chan' = postError(Consume(chan, e), e, msg.reqId, ErrorOf("hydrate", 0))
             /\ initiateError' = [initiateError EXCEPT ![e] = TRUE]
             /\ remote' = [remote EXCEPT ![e] = msg.remote]
        ELSE /\ chan' = Post(Consume(chan, e), Peer(e), ResolveMessage(msg.reqId, Undefined))
             /\ remote' = [remote EXCEPT ![e] = hydrateRemote(msg.remote)]
             /\ UNCHANGED initiateError
    /\ UNCHANGED <<host, lastReqId, requests, asyncIterators, handshake, listening, tasks, calls,
                   served, settled, strays, dropped, propagated, errored>>

\* ------------------------------------------------------ the caller's side
\* The caller's view of one stub call: the promise `result` remoteMethod
\* returned, and the iteration over it.
\*   iter: "none" (no iterator method called yet), "waitOpen" (next() awaits
\*   `result`), "waitItem" (next() awaits the reply to its RequestNextItem),
\*   "idle" (the last step delivered an item), "done", "failed", "cancelled".
NewCall(method, args) ==
    [method |-> method, args |-> args, result |-> "pending", value |-> Undefined,
     iter |-> "none", isIteratorResolved |-> FALSE, items |-> <<>>,
     steps |-> 0, rniSent |-> 0, stepsSettled |-> 0, cancelSent |-> 0, lateReplies |-> 0,
     stepError |-> Undefined]

\* The value the consumer finds at remote.<path>.
RemoteAt(e, path) == IF remote[e] = Undefined THEN Undefined ELSE Access(remote[e], path)

\* The consumer calls the stub it finds at remote.<path>, which runs
\* remoteMethod with the children and the key it closes over: allocate an id,
\* send the Request and register the promise.
callStub(e, path, args) ==
    /\ handshake[e] = "done"
    /\ RemoteAt(e, path).k = "stub"
    /\ TotalCalls < MaxCalls
    /\ LET reqId == newReqId(e)
           stub == RemoteAt(e, path)
       IN
        /\ lastReqId' = [lastReqId EXCEPT ![e] = @ + 1]
        /\ chan' = Post(chan, Peer(e), RequestMessage(reqId, stub.children, stub.method, args))
        /\ requests' = [requests EXCEPT ![e] = Register(@, reqId, Handle(reqId, 0))]
        /\ calls' = [calls EXCEPT ![e] = Put(@, reqId, Put(NewCall(stub.method, args), "path", path))]
    /\ UNCHANGED <<host, asyncIterators, remote, initiateError, handshake, listening, tasks,
                   served, settled, strays, dropped, propagated, errored>>

\* A call of a method of the remote's root: remote.method(args).
remoteMethod(e, method, args) == callStub(e, <<method>>, args)

\* Mutant: next() resolves as soon as it has sent its RequestNextItem.
StepAfterSend_Idle == "idle"

\* What the promise next() returned is while its RequestNextItem is unanswered.
StepAfterSend == "waitItem"

\* The iterator's next(), from the point where `result` is resolved: send
\* RequestNextItem with the call's reqId and register the step's promise.
SendNextItem(c) ==
    [c EXCEPT !.isIteratorResolved = TRUE, !.rniSent = @ + 1, !.iter = StepAfterSend]

\* Mutant: next() sends its RequestNextItem without awaiting `result`.
AwaitsResult_Never(c) == FALSE

\* if (!isIteratorResolved): the first next() awaits the promise of the call.
AwaitsResult(c) == ~c.isIteratorResolved

\* next() called by a consumer that awaits each iterator call before the next.
IterNext(e, r) ==
    /\ r \in DOMAIN calls[e]
    /\ calls[e][r].iter \in {"none", "idle"}
    /\ LET c == [calls[e][r] EXCEPT !.steps = @ + 1] IN
        IF AwaitsResult(c) /\ c.result = "pending"
        THEN \* await result
             /\ calls' = [calls EXCEPT ![e][r] = [c EXCEPT !.iter = "waitOpen"]]
             /\ UNCHANGED <<chan, requests>>
        ELSE IF AwaitsResult(c) /\ c.result = "rejected"
        THEN \* await result throws
             /\ calls' = [calls EXCEPT ![e][r] = [c EXCEPT !.iter = "failed", !.stepError = c.value]]
             /\ UNCHANGED <<chan, requests>>
        ELSE /\ calls' = [calls EXCEPT ![e][r] = SendNextItem(c)]
             /\ chan' = Post(chan, Peer(e), RequestNextItemMessage(r))
             /\ requests' = [requests EXCEPT ![e] = Register(@, r, Handle(r, c.steps))]
    /\ UNCHANGED <<host, lastReqId, asyncIterators, remote, initiateError, handshake, listening,
                   tasks, served, settled, strays, dropped, propagated, errored>>

\* A stub called for a member the peer's host no longer has: the stubs are
\* built once from the Initiate message, the host is looked up at every Request.
StaleCall(e, args) ==
    /\ handshake[e] = "done"
    /\ TotalCalls < MaxCalls
    /\ LET reqId == newReqId(e) IN
        /\ lastReqId' = [lastReqId EXCEPT ![e] = @ + 1]
        /\ chan' = Post(chan, Peer(e), RequestMessage(reqId, <<>>, "removed", args))
        /\ requests' = [requests EXCEPT ![e] = Register(@, reqId, Handle(reqId, 0))]
        /\ calls' = [calls EXCEPT ![e] = Put(@, reqId, NewCall("removed", args))]
    /\ UNCHANGED <<host, asyncIterators, remote, initiateError, handshake, listening, tasks,
                   served, settled, strays, dropped, propagated, errored>>

\* return() called by a consumer that does not wait for its next(): next()
\* still awaits the opening Resolve and will send its RequestNextItem after it.
IterReturnPending(e, r) ==
    /\ r \in DOMAIN calls[e]
    /\ calls[e][r].iter = "waitOpen"
    /\ calls[e][r].cancelSent = 0
    /\ chan' = Post(chan, Peer(e), CancelIteratorMessage(r))
    /\ calls' = [calls EXCEPT ![e][r].cancelSent = @ + 1]
    /\ UNCHANGED <<host, lastReqId, requests, asyncIterators, remote, initiateError, handshake,
                   listening, tasks, served, settled, strays, dropped, propagated, errored>>

\* return() called once more on an iterator that was already returned.
IterReturnAgain(e, r) ==
    /\ r \in DOMAIN calls[e]
    /\ calls[e][r].iter = "cancelled"
    /\ calls[e][r].cancelSent = 1
    /\ chan' = Post(chan, Peer(e), CancelIteratorMessage(r))
    /\ calls' = [calls EXCEPT ![e][r].cancelSent = @ + 1]
    /\ UNCHANGED <<host, lastReqId, requests, asyncIterators, remote, initiateError, handshake,
                   listening, tasks, served, settled, strays, dropped, propagated, errored>>

\* The iterator's return() and throw(): post CancelIterator, nothing else.
CancelStep(e, r) ==
    /\ r \in DOMAIN calls[e]
    /\ calls[e][r].iter \in {"none", "idle"}
    /\ chan' = Post(chan, Peer(e), CancelIteratorMessage(r))
    /\ calls' = [calls EXCEPT ![e][r] = [@ EXCEPT !.iter = "cancelled", !.cancelSent = @ + 1]]
    /\ UNCHANGED <<host, lastReqId, requests, asyncIterators, remote, initiateError, handshake,
                   listening, tasks, served, settled, strays, dropped, propagated, errored>>

IterReturn(e, r) == CancelStep(e, r)

IterThrow(e, r) == CancelStep(e, r)

\* ------------------------------------------------------------- responses
\* What settling the promise of a call (step 0) does to the caller's view:
\* `result` settles, and a next() that awaited it goes on.
SettleCall(c, msg) ==
    LET c1 == IF msg.type = "Resolve"
              THEN [c EXCEPT !.result = "resolved", !.value = msg.result]
              ELSE [c EXCEPT !.result = "rejected", !.value = deserializeError(msg.error)]
    IN  IF c.iter # "waitOpen" THEN c1
        ELSE IF msg.type = "Resolve" THEN SendNextItem(c1)
        ELSE [c1 EXCEPT !.iter = "failed", !.stepError = deserializeError(msg.error)]

\* What settling the promise of a next() (step > 0) does: the consumer reads
\* { done, value } from the value next() resolved with.
SettleStep(c, msg) ==
    LET c1 == [c EXCEPT !.stepsSettled = @ + 1,
                        !.lateReplies = IF c.cancelSent > 0 THEN @ + 1 ELSE @]
    IN  IF msg.type = "Reject"
        THEN [c1 EXCEPT !.iter = "failed", !.stepError = deserializeError(msg.error)]
        ELSE IF msg.result.k # "iter" THEN [c1 EXCEPT !.iter = "failed"]
        ELSE IF msg.result.done THEN [c1 EXCEPT !.iter = "done"]
        ELSE [c1 EXCEPT !.iter = "idle", !.items = Append(@, msg.result.value)]

\* Mutant: a reply without an entry is answered with a Reject, the way
\* handleRequestNextItem answers a RequestNextItem without an iterator.
DropReply_Nack(ch, e) ==
    postError(Consume(ch, e), e, Head(ch[e]).reqId, ErrorOf("No request found", 0))

\* handleResponse without an entry for msg.reqId: the message is taken off the
\* channel and nothing else is done.
DropReply(ch, e) == Consume(ch, e)

\* handleResponse: look the entry up; when there is one, delete it and call
\* its resolve or reject.  The continuations of the settled promise run before
\* the next message is handled.
handleResponse(e) ==
    /\ Inbox(e, "Resolve") \/ Inbox(e, "Reject")
    /\ LET msg == Head(chan[e])
           key == LookupRequest(requests[e], msg.reqId)
       IN
        IF key = -1
        THEN /\ chan' = DropReply(chan, e)
             /\ dropped' = [dropped EXCEPT ![e] = @ \cup {msg.reqId}]
             /\ UNCHANGED <<requests, settled, calls, handshake, listening>>
        ELSE LET h == requests[e][key]
                 r == h[1]
                 first == h \notin DOMAIN settled[e]
                 isCall == r \in DOMAIN calls[e]
                 c == IF isCall THEN calls[e][r] ELSE NewCall("", 0)
                 c1 == IF ~first THEN c
                       ELSE IF h[2] = 0 THEN SettleCall(c, msg) ELSE SettleStep(c, msg)
                 resumed == isCall /\ first /\ h[2] = 0 /\ c.iter = "waitOpen"
                            /\ msg.type = "Resolve"
                 reqs1 == DeleteRequest(requests[e], msg.reqId)
             IN
                /\ settled' = [settled EXCEPT ![e] = Settle(@, h)]
                /\ UNCHANGED dropped
                /\ calls' = IF isCall THEN [calls EXCEPT ![e][r] = c1] ELSE calls
                /\ requests' = [requests EXCEPT ![e] =
                        IF resumed THEN Register(reqs1, r, Handle(r, c.steps)) ELSE reqs1]
                /\ chan' = IF resumed
                           THEN Post(Consume(chan, e), Peer(e), RequestNextItemMessage(r))
                           ELSE Consume(chan, e)
                /\ IF isCall \/ ~first
                   THEN UNCHANGED <<handshake, listening>>
                   ELSE \* sendInitiate goes on after its await; promisify removes
                        \* the listener when it throws
                        LET ok == msg.type = "Resolve" /\ ~initiateError[e] IN
                        /\ handshake' = [handshake EXCEPT ![e] = IF ok THEN "done" ELSE "failed"]
                        /\ listening' = [listening EXCEPT ![e] = ok]
    /\ UNCHANGED <<host, lastReqId, asyncIterators, remote, initiateError, tasks, served, strays,
                   propagated, errored>>

\* ----------------------------------------------------- unrelated traffic
\* Events on the shared channel that are not ours: data without a known
\* _type, and an event without data (msg is undefined).
ForeignMessages == {[type |-> "other"], [type |-> "undefined"]}

\* Mutant: handle claims every event.
handle_Claims(type) == TRUE

\* What MessageHandler.handle returns: true for the six kinds of the switch,
\* false from its default branch.
handle(type) == type \in MessageType

\* The listener on an event the switch of handle has no case for: nothing is
\* done, and stopImmediatePropagation is called only if handle returned true.
handleDefault(e) ==
    /\ listening[e]
    /\ chan[e] # <<>>
    /\ Head(chan[e]).type \notin MessageType
    /\ chan' = Consume(chan, e)
    /\ propagated' = IF handle(Head(chan[e]).type) THEN propagated
                     ELSE [propagated EXCEPT ![e] = Append(@, Head(chan[e]))]
    /\ UNCHANGED <<host, lastReqId, requests, asyncIterators, remote, initiateError, handshake,
                   listening, tasks, calls, served, settled, strays, dropped, errored>>

\* ----------------------------------------------------- the exposer's side
\* The exposer's record of one inbound Request: what handleRequest posted for
\* it, and the async generator the method returned (gen: "none", "active",
\* "closing" (return() called while a next() is pending), "closed").
NewServed(method, args) ==
    [method |-> method, args |-> args, replies |-> <<>>, running |-> TRUE,
     rni |-> 0, pulled |-> 0, returned |-> 0, yielded |-> <<>>, gen |-> "none", unsent |-> 0,
     threw |-> 0]

RequestTask(msg) == [kind |-> "request", reqId |-> msg.reqId, method |-> msg.method, args |-> msg.args]

\* A suspended handleRequestNextItem: `iter` is the generator it pulls from,
\* named by the reqId of the Request that created it.
NextTask(reqId, iter) == [kind |-> "next", reqId |-> reqId, method |-> "", args |-> iter]

\* Mutant: the lookup ignores reqId and takes the oldest registered generator.
GetIterator_Any(iters, reqId) ==
    IF DOMAIN iters = {} THEN -1
    ELSE iters[CHOOSE k \in DOMAIN iters : \A j \in DOMAIN iters : k <= j]

\* this.asyncIterators.get(reqId): the generator stored, or -1 for undefined.
GetIterator(iters, reqId) == IF reqId \in DOMAIN iters THEN iters[reqId] ELSE -1

\* Mutant: the first item is pulled when the stream is opened.
OpenStream_Eager(s) ==
    [s EXCEPT !.gen = "active", !.pulled = 1, !.yielded = <<HostItem(s.args, 0)>>]

\* The generator right after result[Symbol.asyncIterator](): nothing pulled.
OpenStream(s) == [s EXCEPT !.gen = "active"]

\* Mutant: the iterator is dropped without calling its return().
ReturnIterator_Skip(s, pulling) == s

\* iter.return(): the early-termination hook of the generator.
ReturnIterator(s, pulling) ==
    [s EXCEPT !.returned = @ + 1, !.gen = IF pulling THEN "closing" ELSE "closed"]

\* children.reduce((obj, key) => obj[key], this.host) and obj[method] reach a
\* function of the host.
Resolvable(children, method) == Target(FlatHost, children, method).member.k = "fn"

\* obj[method](...args): the record of a Request notes the function that was
\* called and the object it was called on.
Invoked(s, children, target) ==
    [x \in DOMAIN s \cup {"children", "fn", "receiver"} |->
        CASE x = "children" -> children
          [] x = "fn" -> IF target.member.k = "fn" THEN target.member.v ELSE ""
          [] x = "receiver" -> target.receiver
          [] OTHER -> s[x]]

\* The host method is one that calls a method of the remote before it returns.
CallsBack(member) == member.k = "fn" /\ member.v = "relay"

\* A suspended handleRequest whose host method awaits its own call `reqId` of
\* the remote.
Awaiting(task, reqId) == Put(task, "awaiting", reqId)

\* handleRequest up to its await: walk to the member and call it; a walk or a
\* call that throws is answered with a Reject at once.  A method that calls
\* the remote sends its Request inside this call, before it suspends.
handleRequest(e) ==
    /\ Inbox(e, "Request")
    /\ LET msg == Head(chan[e])
           target == Target(host[e], msg.children, msg.method)
           record == Invoked(NewServed(msg.method, msg.args), msg.children, target)
           back == RemoteAt(e, <<"increment">>)
       IN
        CASE CallsBack(target.member) /\ back.k = "stub" ->
                LET reqId == newReqId(e) IN
                /\ lastReqId' = [lastReqId EXCEPT ![e] = @ + 1]
                /\ chan' = Post(Consume(chan, e), Peer(e),
                                RequestMessage(reqId, back.children, back.method, msg.args))
                /\ requests' = [requests EXCEPT ![e] = Register(@, reqId, Handle(reqId, 0))]
                /\ calls' = [calls EXCEPT ![e] =
                        Put(@, reqId, Put(NewCall(back.method, msg.args), "path", <<"increment">>))]
                /\ tasks' = [tasks EXCEPT ![e] = @ \cup {Awaiting(RequestTask(msg), reqId)}]
                /\ served' = [served EXCEPT ![e] = Put(@, msg.reqId, record)]
          [] target.member.k = "fn" /\ ~CallsBack(target.member) ->
                /\ chan' = Consume(chan, e)
                /\ tasks' = [tasks EXCEPT ![e] = @ \cup {RequestTask(msg)}]
                /\ served' = [served EXCEPT ![e] = Put(@, msg.reqId, record)]
                /\ UNCHANGED <<lastReqId, requests, calls>>
          [] OTHER ->
                LET reply == RejectMessage(msg.reqId, serializeError(ErrorOf("not a function", 0))) IN
                /\ chan' = Post(Consume(chan, e), Peer(e), reply)
                /\ served' = [served EXCEPT ![e] = Put(@, msg.reqId,
                        [record EXCEPT !.replies = <<reply>>, !.running = FALSE])]
                /\ UNCHANGED <<tasks, lastReqId, requests, calls>>
    /\ UNCHANGED <<host, asyncIterators, remote, initiateError, handshake, listening,
                   settled, strays, dropped, propagated, errored>>

\* The host method of a suspended handleRequest can settle: one that awaits a
\* call of the remote settles once that call has.
HostReady(e, t) == "awaiting" \in DOMAIN t => calls[e][t.awaiting].result # "pending"

\* Mutant: a method that throws is answered with a value-less Resolve.
RequestReply_NoReject(t) ==
    IF HostOutcome(t.method) = "plain"
    THEN ResolveMessage(t.reqId, HostResult(t.method, t.args))
    ELSE ResolveMessage(t.reqId, Undefined)

\* The reply handleRequest posts once the method has settled.
RequestReply(t) ==
    CASE HostOutcome(t.method) = "plain" -> ResolveMessage(t.reqId, HostResult(t.method, t.args))
      [] HostOutcome(t.method) = "stream" -> ResolveMessage(t.reqId, Undefined)
      [] OTHER -> RejectMessage(t.reqId, serializeError(HostError(t.method, t.args)))

\* handleRequest after its await: Resolve with the value, or Resolve without a
\* value and register the iterator, or Reject.
RequestSettles(e, t) ==
    /\ t \in tasks[e]
    /\ t.kind = "request"
    /\ HostReady(e, t)
    /\ LET reply == RequestReply(t)
           isStream == HostOutcome(t.method) = "stream"
       IN
        /\ chan' = Post(chan, Peer(e), reply)
        /\ asyncIterators' = [asyncIterators EXCEPT ![e] =
                IF isStream THEN Put(@, t.reqId, t.reqId) ELSE @]
        /\ served' = [served EXCEPT ![e][t.reqId] =
                LET s1 == [@ EXCEPT !.replies = Append(@, reply), !.running = FALSE]
                IN  IF isStream THEN OpenStream(s1) ELSE s1]
    /\ tasks' = [tasks EXCEPT ![e] = @ \ {t}]
    /\ UNCHANGED <<host, lastReqId, requests, remote, initiateError, handshake, listening, calls,
                   settled, strays, dropped, propagated, errored>>

\* The exception postMessage throws for a value it cannot clone.
DataCloneError == ErrorOf("could not be cloned", 0)

\* Mutant: the iterator is stored before the opening Resolve is posted.
IteratorsOnFailedOpen_Early(iters, reqId) == Put(iters, reqId, reqId)

\* handleRequest posts the opening Resolve before this.asyncIterators.set: when
\* the post throws, the map is as it was.
IteratorsOnFailedOpen(iters, reqId) == iters

\* Mutant: the catch is missing, the failed send is the end of the handler.
ReplyOnFailedSend_None(ch, e, reqId) == ch

\* The catch of handleRequest and of handleRequestNextItem after a Resolve
\* that could not be posted: postError with the exception of the send.
ReplyOnFailedSend(ch, e, reqId) == postError(ch, e, reqId, DataCloneError)

\* handleRequest after its await, when posting the Resolve throws (the result
\* cannot be cloned, the channel refuses the message): the catch posts a
\* Reject, and no iterator is stored.
RequestSettlesSendFails(e, t) ==
    /\ t \in tasks[e]
    /\ t.kind = "request"
    /\ HostReady(e, t)
    /\ HostOutcome(t.method) \in {"plain", "stream"}
    /\ chan' = ReplyOnFailedSend(chan, e, t.reqId)
    /\ asyncIterators' = [asyncIterators EXCEPT ![e] =
            IF HostOutcome(t.method) = "stream" THEN IteratorsOnFailedOpen(@, t.reqId) ELSE @]
    /\ served' = [served EXCEPT ![e][t.reqId] =
            [@ EXCEPT !.replies = Append(@, RejectMessage(t.reqId, serializeError(DataCloneError))),
                      !.running = FALSE, !.unsent = @ + 1,
                      !.gen = IF HostOutcome(t.method) = "stream" THEN "unregistered" ELSE @]]
    /\ tasks' = [tasks EXCEPT ![e] = @ \ {t}]
    /\ UNCHANGED <<host, lastReqId, requests, remote, initiateError, handshake, listening, calls,
                   settled, strays, dropped, propagated, errored>>

\* handleRequestNextItem up to its await: without an iterator for the reqId a
\* Reject is posted at once; with one, iter.next() is called.
handleRequestNextItem(e) ==
    /\ Inbox(e, "RequestNextItem")
    /\ LET msg == Head(chan[e])
           r == msg.reqId
           iter == GetIterator(asyncIterators[e], r)
           counted == IF r \in DOMAIN served[e]
                      THEN [served EXCEPT ![e][r].rni = @ + 1] ELSE served
       IN
        IF iter = -1
        THEN /\ chan' = postError(Consume(chan, e), e, r, NoIteratorError(r))
             /\ served' = counted
             /\ UNCHANGED tasks
        ELSE /\ chan' = Consume(chan, e)
             /\ served' = [counted EXCEPT ![e][iter].pulled = @ + 1]
             /\ tasks' = [tasks EXCEPT ![e] = @ \cup {NextTask(r, iter)}]
    /\ UNCHANGED <<host, lastReqId, requests, asyncIterators, remote, initiateError, handshake,
                   listening, calls, settled, strays, dropped, propagated, errored>>

\* What a pending iter.next() of the generator can settle to.
GenOutcomes(s) ==
    IF s.gen = "closed" THEN {"done"}
    ELSE {"done", "throw"} \cup (IF Len(s.yielded) < MaxItems THEN {"yield"} ELSE {})

\* Mutant: only result.done ends the stream, the catch does not set isDone.
IsDone_ResultOnly(o) == o = "done"

\* isDone after the try/catch of handleRequestNextItem.
IsDone(o) == o \in {"done", "throw"}

\* handleRequestNextItem after its await: post the IteratorResult, or the
\* error; drop the iterator when the step was the last.
NextSettles(e, t, o) ==
    /\ t \in tasks[e]
    /\ t.kind = "next"
    /\ LET r == t.reqId
           iter == t.args
           s == served[e][iter]
           item == HostItem(s.args, Len(s.yielded))
           reply == CASE o = "yield" -> ResolveMessage(r, IterResult(FALSE, item))
                      [] o = "done" -> ResolveMessage(r, IterResult(TRUE, Undefined))
                      [] OTHER -> RejectMessage(r, serializeError(HostError(s.method, s.args)))
       IN
        /\ o \in GenOutcomes(s)
        /\ chan' = Post(chan, Peer(e), reply)
        /\ asyncIterators' = [asyncIterators EXCEPT ![e] = IF IsDone(o) THEN Drop(@, r) ELSE @]
        /\ served' = [served EXCEPT ![e][iter] =
                [@ EXCEPT !.yielded = IF o = "yield" THEN Append(@, item) ELSE @,
                          !.threw = IF o = "throw" THEN s.pulled ELSE @,
                          !.gen = IF o = "yield" /\ s.gen = "active" THEN "active" ELSE "closed"]]
    /\ tasks' = [tasks EXCEPT ![e] = @ \ {t}]
    /\ UNCHANGED <<host, lastReqId, requests, remote, initiateError, handshake, listening, calls,
                   settled, strays, dropped, propagated, errored>>

\* handleRequestNextItem after its await, when the generator yielded an item
\* and posting the Resolve throws: the catch posts a Reject and sets isDone,
\* so the iterator is dropped (its return() is not called).
NextSettlesSendFails(e, t) ==
    /\ t \in tasks[e]
    /\ t.kind = "next"
    /\ LET r == t.reqId
           iter == t.args
           s == served[e][iter]
           item == HostItem(s.args, Len(s.yielded))
       IN
        /\ "yield" \in GenOutcomes(s)
        /\ chan' = ReplyOnFailedSend(chan, e, r)
        /\ asyncIterators' = [asyncIterators EXCEPT ![e] = Drop(@, r)]
        /\ served' = [served EXCEPT ![e][iter] =
                [@ EXCEPT !.yielded = Append(@, item), !.unsent = @ + 1]]
    /\ tasks' = [tasks EXCEPT ![e] = @ \ {t}]
    /\ UNCHANGED <<host, lastReqId, requests, remote, initiateError, handshake, listening, calls,
                   settled, strays, dropped, propagated, errored>>

\* handleCancelIterator: with an iterator for the reqId, drop it and call its
\* return(); without one, nothing.
handleCancelIterator(e) ==
    /\ Inbox(e, "CancelIterator")
    /\ LET r == Head(chan[e]).reqId
           iter == GetIterator(asyncIterators[e], r)
       IN
        IF iter # -1
        THEN /\ asyncIterators' = [asyncIterators EXCEPT ![e] = Drop(@, r)]
             /\ served' = [served EXCEPT ![e][iter] =
                    ReturnIterator(@, \E t \in tasks[e] : t.kind = "next" /\ t.args = iter)]
        ELSE UNCHANGED <<asyncIterators, served>>
    /\ chan' = Consume(chan, e)
    /\ UNCHANGED <<host, lastReqId, requests, remote, initiateError, handshake, listening, tasks,
                   calls, settled, strays, dropped, propagated, errored>>

\* ------------------------------------------------------------------- next
Next ==
    \/ \E e \in Endpoints : Promisify(e)
    \/ \E e \in Endpoints : handleInitiate(e)
    \/ \E e \in Endpoints, m \in HostMethods, a \in Args : remoteMethod(e, m, a)
    \/ \E e \in Endpoints : \E r \in DOMAIN calls[e] : IterNext(e, r)
    \/ \E e \in Endpoints : \E r \in DOMAIN calls[e] : IterReturn(e, r)
    \/ \E e \in Endpoints : \E r \in DOMAIN calls[e] : IterThrow(e, r)
    \/ \E e \in Endpoints : handleRequest(e)
    \/ \E e \in Endpoints : \E t \in tasks[e] : RequestSettles(e, t)
    \/ \E e \in Endpoints : handleResponse(e)
    \/ \E e \in Endpoints : handleRequestNextItem(e)
    \/ \E e \in Endpoints : \E t \in tasks[e] : \E o \in {"yield", "done", "throw"} : NextSettles(e, t, o)
    \/ \E e \in Endpoints : handleCancelIterator(e)

Spec == Init /\ [][Next]_vars

\* The event loop hands every queued message to the listener, and every host
\* method and generator step settles.
Machine ==
    \/ \E e \in Endpoints : handleInitiate(e) \/ handleRequest(e) \/ handleResponse(e)
    \/ \E e \in Endpoints : handleRequestNextItem(e) \/ handleCancelIterator(e)
    \/ \E e \in Endpoints : \E t \in tasks[e] : RequestSettles(e, t)
    \/ \E e \in Endpoints : \E t \in tasks[e] : \E o \in {"yield", "done", "throw"} : NextSettles(e, t, o)

FairSpec == Spec /\ WF_vars(Machine)

\* A reply that reaches e late or twice: a Resolve or a Reject for an id e has
\* issued or is about to issue, sent once more by the peer or by other traffic
\* on the shared channel.
StrayReply(e, r, type) ==
    /\ strays < MaxStray
    /\ listening[e]
    /\ r \in 0..lastReqId[e]
    /\ strays' = strays + 1
    /\ chan' = Post(chan, e, IF type = "Resolve" THEN ResolveMessage(r, Undefined)
                             ELSE RejectMessage(r, serializeError(ErrorOf("late", 0))))
    /\ UNCHANGED <<host, lastReqId, requests, asyncIterators, remote, initiateError, handshake,
                   listening, tasks, calls, served, settled, dropped, propagated, errored>>

\* An event of some other user of the channel reaches e's listener.
ForeignTraffic(e, msg) ==
    /\ strays < MaxStray
    /\ listening[e]
    /\ strays' = strays + 1
    /\ chan' = Post(chan, e, msg)
    /\ UNCHANGED <<host, lastReqId, requests, asyncIterators, remote, initiateError, handshake,
                   listening, tasks, calls, served, settled, dropped, propagated, errored>>

NextStray ==
    \/ \E e \in Endpoints : Promisify(e)
    \/ \E e \in Endpoints : handleInitiate(e)
    \/ \E m \in HostMethods, a \in Args : remoteMethod("A", m, a)
    \/ \E e \in Endpoints : \E r \in DOMAIN calls[e] : IterNext(e, r)
    \/ \E e \in Endpoints : \E r \in DOMAIN calls[e] : IterReturn(e, r)
    \/ \E e \in Endpoints : \E r \in DOMAIN calls[e] : IterThrow(e, r)
    \/ \E e \in Endpoints : handleRequest(e)
    \/ \E e \in Endpoints : \E t \in tasks[e] : RequestSettles(e, t)
    \/ \E e \in Endpoints : handleResponse(e)
    \/ \E e \in Endpoints : handleRequestNextItem(e)
    \/ \E e \in Endpoints : \E t \in tasks[e] : \E o \in {"yield", "done", "throw"} : NextSettles(e, t, o)
    \/ \E e \in Endpoints : handleCancelIterator(e)
    \/ \E r \in 0..MaxCalls + 1, type \in {"Resolve", "Reject"} : StrayReply("A", r, type)
    \/ \E msg \in ForeignMessages : ForeignTraffic("A", msg)
    \/ \E e \in Endpoints : handleDefault(e)

SpecStray == Init /\ [][NextStray]_vars

\* A consumer that drives the iterator by hand: it may call return() while its
\* next() is pending or after it has returned already, and it may call a stub
\* of a member the peer's host has lost.  Calls are made by A.
NextRace ==
    \/ \E e \in Endpoints : Promisify(e)
    \/ \E e \in Endpoints : handleInitiate(e)
    \/ \E m \in HostMethods, a \in Args : remoteMethod("A", m, a)
    \/ \E a \in Args : StaleCall("A", a)
    \/ \E e \in Endpoints : \E r \in DOMAIN calls[e] : IterNext(e, r)
    \/ \E e \in Endpoints : \E r \in DOMAIN calls[e] : IterReturn(e, r)
    \/ \E e \in Endpoints : \E r \in DOMAIN calls[e] : IterThrow(e, r)
    \/ \E e \in Endpoints : \E r \in DOMAIN calls[e] : IterReturnPending(e, r)
    \/ \E e \in Endpoints : \E r \in DOMAIN calls[e] : IterReturnAgain(e, r)
    \/ \E e \in Endpoints : handleRequest(e)
    \/ \E e \in Endpoints : \E t \in tasks[e] : RequestSettles(e, t)
    \/ \E e \in Endpoints : handleResponse(e)
    \/ \E e \in Endpoints : handleRequestNextItem(e)
    \/ \E e \in Endpoints : \E t \in tasks[e] : \E o \in {"yield", "done", "throw"} : NextSettles(e, t, o)
    \/ \E e \in Endpoints : handleCancelIterator(e)

SpecRace == Init /\ [][NextRace]_vars

\* remoteMethod statement by statement.  sendRequest first hands the message
\* to postMessage and then creates the promise whose executor stores the entry.
\* A sendRequest between the two: the message is out, the promise not yet made.
SendTask(reqId, method, args) == [kind |-> "send", reqId |-> reqId, method |-> method, args |-> args]

\* e is inside sendRequest: no other code of e runs until it returns.
InSendRequest(e) == \E t \in tasks[e] : t.kind = "send"

\* remoteMethod up to and including sendRequest's this.postMessage(msg).
sendRequestPosts(e, method, args) ==
    /\ handshake[e] = "done"
    /\ RemoteAt(e, <<method>>).k = "stub"
    /\ TotalCalls < MaxCalls
    /\ LET reqId == newReqId(e) IN
        /\ lastReqId' = [lastReqId EXCEPT ![e] = @ + 1]
        /\ chan' = Post(chan, Peer(e), RequestMessage(reqId, <<>>, method, args))
        /\ tasks' = [tasks EXCEPT ![e] = @ \cup {SendTask(reqId, method, args)}]
    /\ UNCHANGED <<host, requests, asyncIterators, remote, initiateError, handshake, listening,
                   calls, served, settled, strays, dropped, propagated, errored>>

\* sendRequest's new Promise(...): the executor stores { resolve, reject }.
sendRequestRegisters(e, t) ==
    /\ t \in tasks[e]
    /\ t.kind = "send"
    /\ requests' = [requests EXCEPT ![e] = Register(@, t.reqId, Handle(t.reqId, 0))]
    /\ calls' = [calls EXCEPT ![e] = Put(@, t.reqId, NewCall(t.method, t.args))]
    /\ tasks' = [tasks EXCEPT ![e] = @ \ {t}]
    /\ UNCHANGED <<host, lastReqId, chan, asyncIterators, remote, initiateError, handshake,
                   listening, served, settled, strays, dropped, propagated, errored>>

\* The two endpoints run in different threads: while e is inside sendRequest
\* the peer goes on, and e itself does nothing else.  Calls are made by A.
NextSend ==
    \/ \E e \in Endpoints : ~InSendRequest(e) /\ Promisify(e)
    \/ \E e \in Endpoints : ~InSendRequest(e) /\ handleInitiate(e)
    \/ \E m \in HostMethods, a \in Args : ~InSendRequest("A") /\ sendRequestPosts("A", m, a)
    \/ \E t \in tasks["A"] : sendRequestRegisters("A", t)
    \/ \E e \in Endpoints : \E r \in DOMAIN calls[e] : ~InSendRequest(e) /\ IterNext(e, r)
    \/ \E e \in Endpoints : \E r \in DOMAIN calls[e] : ~InSendRequest(e) /\ IterReturn(e, r)
    \/ \E e \in Endpoints : \E r \in DOMAIN calls[e] : ~InSendRequest(e) /\ IterThrow(e, r)
    \/ \E e \in Endpoints : ~InSendRequest(e) /\ handleRequest(e)
    \/ \E e \in Endpoints : \E t \in tasks[e] : ~InSendRequest(e) /\ RequestSettles(e, t)
    \/ \E e \in Endpoints : ~InSendRequest(e) /\ handleResponse(e)
    \/ \E e \in Endpoints : ~InSendRequest(e) /\ handleRequestNextItem(e)
    \/ \E e \in Endpoints : \E t \in tasks[e] : \E o \in {"yield", "done", "throw"} :
            ~InSendRequest(e) /\ NextSettles(e, t, o)
    \/ \E e \in Endpoints : ~InSendRequest(e) /\ handleCancelIterator(e)

SpecSend == Init /\ [][NextSend]_vars

\* --------------------------------------------------------- channel failure
\* Mutant: the failure is ignored also while the handshake is under way.
HandshakeOpen_Never(e) == FALSE

\* The error listener's test `host === undefined`: promisify has not settled.
HandshakeOpen(e) == handshake[e] = "pending"

\* Mutant: the failure throws away whatever is pending.
RequestsOnError_Swept(reqs) == EmptyMap

\* The pending table after the error listener has run: it is not touched.
RequestsOnError(reqs) == reqs

\* The worker's 'error' event reaches the listener promisify attached with
\* { once: true }: while the handshake is open the message listener is removed
\* and promisify rejects; afterwards nothing is done.
onError(e) ==
    /\ handshake[e] # "idle"
    /\ ~errored[e]
    /\ errored' = [errored EXCEPT ![e] = TRUE]
    /\ requests' = [requests EXCEPT ![e] = RequestsOnError(@)]
    /\ IF HandshakeOpen(e)
       THEN /\ listening' = [listening EXCEPT ![e] = FALSE]
            /\ handshake' = [handshake EXCEPT ![e] = "failed"]
       ELSE UNCHANGED <<listening, handshake>>
    /\ UNCHANGED <<host, lastReqId, asyncIterators, remote, initiateError, chan, tasks, calls,
                   served, settled, strays, dropped, propagated>>

\* The worker may fail at any time.  Calls are made by A.
NextFail ==
    \/ \E e \in Endpoints : Promisify(e)
    \/ \E e \in Endpoints : handleInitiate(e)
    \/ \E m \in HostMethods, a \in Args : remoteMethod("A", m, a)
    \/ \E e \in Endpoints : \E r \in DOMAIN calls[e] : IterNext(e, r)
    \/ \E e \in Endpoints : \E r \in DOMAIN calls[e] : IterReturn(e, r)
    \/ \E e \in Endpoints : \E r \in DOMAIN calls[e] : IterThrow(e, r)
    \/ \E e \in Endpoints : handleRequest(e)
    \/ \E e \in Endpoints : \E t \in tasks[e] : RequestSettles(e, t)
    \/ \E e \in Endpoints : handleResponse(e)
    \/ \E e \in Endpoints : handleRequestNextItem(e)
    \/ \E e \in Endpoints : \E t \in tasks[e] : \E o \in {"yield", "done", "throw"} : NextSettles(e, t, o)
    \/ \E e \in Endpoints : handleCancelIterator(e)
    \/ \E e \in Endpoints : onError(e)

SpecFail == Init /\ [][NextFail]_vars

\* Calls of the methods that return and that throw, with every kind of value.
NextThrow ==
    \/ \E e \in Endpoints : Promisify(e)
    \/ \E e \in Endpoints : handleInitiate(e)
    \/ \E m \in {"increment", "fail"}, a \in ThrowArgs : remoteMethod("A", m, a)
    \/ \E e \in Endpoints : handleRequest(e)
    \/ \E e \in Endpoints : \E t \in tasks[e] : RequestSettles(e, t)
    \/ \E e \in Endpoints : handleResponse(e)

SpecThrow == Init /\ [][NextThrow]_vars

\* The stubs the consumer can reach from its remote in at most MaxPath reads.
CallPaths(e) ==
    IF remote[e] = Undefined THEN {}
    ELSE StubPaths(remote[e].objs, remote[e].root, MaxPath)

\* Each endpoint exposes one of the test hosts; A calls the stubs it finds in
\* its remote.
NextGraph ==
    \/ \E e \in Endpoints : Promisify(e)
    \/ \E e \in Endpoints : handleInitiate(e)
    \/ \E path \in CallPaths("A") : callStub("A", path, 1)
    \/ \E e \in Endpoints : handleRequest(e)
    \/ \E e \in Endpoints : \E t \in tasks[e] : RequestSettles(e, t)
    \/ \E e \in Endpoints : handleResponse(e)

SpecGraph == InitGraph /\ [][NextGraph]_vars

\* The same steps between endpoints either of which may expose nothing.
SpecOptional == InitOptional /\ [][NextGraph]_vars

\* Both endpoints expose the full-duplex host and call each other's methods.
NextDuplex ==
    \/ \E e \in Endpoints : Promisify(e)
    \/ \E e \in Endpoints : handleInitiate(e)
    \/ \E e \in Endpoints, m \in {"increment", "relay"}, a \in Args : remoteMethod(e, m, a)
    \/ \E e \in Endpoints : handleRequest(e)
    \/ \E e \in Endpoints : \E t \in tasks[e] : RequestSettles(e, t)
    \/ \E e \in Endpoints : handleResponse(e)

FairDuplex == InitDuplex /\ [][NextDuplex]_vars /\ WF_vars(Machine)

\* A call whose send failed.
SendFailed(c) == Put(c, "sendFailed", TRUE)

\* remoteMethod when postMessage throws inside sendRequest: the reqId is spent,
\* nothing is registered, and the exception leaves remoteMethod, which is not
\* async, synchronously: the stub call throws and returns no promise and no
\* iterator.
remoteMethodThrows(e, method, args) ==
    /\ handshake[e] = "done"
    /\ RemoteAt(e, <<method>>).k = "stub"
    /\ TotalCalls < MaxCalls
    /\ lastReqId' = [lastReqId EXCEPT ![e] = @ + 1]
    /\ calls' = [calls EXCEPT ![e] = Put(@, newReqId(e),
            SendFailed([Put(NewCall(method, args), "path", <<method>>)
                            EXCEPT !.result = "thrown", !.iter = "absent"]))]
    /\ UNCHANGED <<host, requests, chan, asyncIterators, remote, initiateError, handshake,
                   listening, tasks, served, settled, strays, dropped, propagated, errored>>

\* The iterator's next() when postMessage throws inside sendRequest: next is
\* async, the promise it returned is rejected, nothing is registered.
IterNextThrows(e, r) ==
    /\ r \in DOMAIN calls[e]
    /\ calls[e][r].iter \in {"none", "idle"}
    /\ calls[e][r].isIteratorResolved \/ calls[e][r].result = "resolved"
    /\ calls' = [calls EXCEPT ![e][r] =
            SendFailed([@ EXCEPT !.steps = @ + 1, !.isIteratorResolved = TRUE, !.iter = "failed"])]
    /\ UNCHANGED <<host, lastReqId, requests, chan, asyncIterators, remote, initiateError,
                   handshake, listening, tasks, served, settled, strays, dropped, propagated,
                   errored>>

\* The channel's send may throw for any outbound Initiate, Request or
\* RequestNextItem.  Calls are made by A.
NextSendFails ==
    \/ \E e \in Endpoints : Promisify(e)
    \/ \E e \in Endpoints : sendInitiateThrows(e)
    \/ \E e \in Endpoints : handleInitiate(e)
    \/ \E m \in HostMethods, a \in Args : remoteMethod("A", m, a)
    \/ \E m \in HostMethods, a \in Args : remoteMethodThrows("A", m, a)
    \/ \E r \in DOMAIN calls["A"] : IterNext("A", r)
    \/ \E r \in DOMAIN calls["A"] : IterNextThrows("A", r)
    \/ \E e \in Endpoints : handleRequest(e)
    \/ \E e \in Endpoints : \E t \in tasks[e] : RequestSettles(e, t)
    \/ \E e \in Endpoints : handleResponse(e)
    \/ \E e \in Endpoints : handleRequestNextItem(e)
    \/ \E e \in Endpoints : \E t \in tasks[e] : \E o \in {"yield", "done", "throw"} : NextSettles(e, t, o)

SpecSendFails == Init /\ [][NextSendFails]_vars

\* Results and items that cannot be sent.  Calls are made by A.
NextUnsendable ==
    \/ \E e \in Endpoints : Promisify(e)
    \/ \E e \in Endpoints : handleInitiate(e)
    \/ \E m \in HostMethods, a \in Args : remoteMethod("A", m, a)
    \/ \E r \in DOMAIN calls["A"] : IterNext("A", r)
    \/ \E e \in Endpoints : handleRequest(e)
    \/ \E e \in Endpoints : \E t \in tasks[e] : RequestSettles(e, t)
    \/ \E e \in Endpoints : \E t \in tasks[e] : RequestSettlesSendFails(e, t)
    \/ \E e \in Endpoints : handleResponse(e)
    \/ \E e \in Endpoints : handleRequestNextItem(e)
    \/ \E e \in Endpoints : \E t \in tasks[e] : \E o \in {"yield", "done", "throw"} : NextSettles(e, t, o)
    \/ \E e \in Endpoints : \E t \in tasks[e] : NextSettlesSendFails(e, t)

SpecUnsendable == Init /\ [][NextUnsendable]_vars

\* Every handler runs and every host method and send settles, one way or the
\* other.
MachineUnsendable ==
    \/ Machine
    \/ \E e \in Endpoints : \E t \in tasks[e] : RequestSettlesSendFails(e, t)
    \/ \E e \in Endpoints : \E t \in tasks[e] : NextSettlesSendFails(e, t)

FairUnsendable == SpecUnsendable /\ WF_vars(MachineUnsendable)

\* Either endpoint may expose a host that its peer fails to hydrate.
NextInit ==
    \/ \E e \in Endpoints : Promisify(e)
    \/ \E e \in Endpoints : PromisifyDeep(e)
    \/ \E e \in Endpoints : handleInitiate(e)
    \/ \E e \in Endpoints, m \in HostMethods, a \in Args : remoteMethod(e, m, a)
    \/ \E e \in Endpoints : \E r \in DOMAIN calls[e] : IterNext(e, r)
    \/ \E e \in Endpoints : \E r \in DOMAIN calls[e] : IterReturn(e, r)
    \/ \E e \in Endpoints : \E r \in DOMAIN calls[e] : IterThrow(e, r)
    \/ \E e \in Endpoints : handleRequest(e)
    \/ \E e \in Endpoints : \E t \in tasks[e] : RequestSettles(e, t)
    \/ \E e \in Endpoints : handleResponse(e)
    \/ \E e \in Endpoints : handleRequestNextItem(e)
    \/ \E e \in Endpoints : \E t \in tasks[e] : \E o \in {"yield", "done", "throw"} : NextSettles(e, t, o)
    \/ \E e \in Endpoints : handleCancelIterator(e)

FairInit == Init /\ [][NextInit]_vars /\ WF_vars(Machine)

\* ------------------------------------------ two promisifies on one worker
\* The host of a second promisify on the same worker (the README's second
\* host is an AbortController).
ControlHost == Graph(1, 1 :> Obj(<<Field("abort", Fn("ctrl.abort"))>>, 0))

\* The Initiate of the second handler: every MessageHandler counts its reqIds
\* from 0, so it carries the same reqId as the Initiate of the first one.
SecondInitiate == InitiateMessage(0, clone(ControlHost))

\* promisify(worker, ControlHost) is called on the peer of e after the first
\* promisify there: it adds a second listener to the same worker and posts
\* the Initiate of its own handler.  The second listener of a side is called
\* after the first, and only for the events the first one has not stopped
\* (the events of `propagated`).
SecondPromisify(e) ==
    /\ strays < MaxStray
    /\ listening[Peer(e)]
    /\ strays' = strays + 1
    /\ chan' = Post(chan, e, SecondInitiate)
    /\ UNCHANGED <<host, lastReqId, requests, asyncIterators, remote, initiateError, handshake,
                   listening, tasks, calls, served, settled, dropped, propagated, errored>>

\* The members a caller may find on a remote of either host.
StubNames == HostMethods \cup {"abort"}

NextMulti ==
    \/ \E e \in Endpoints : Promisify(e)
    \/ \E e \in Endpoints : SecondPromisify(e)
    \/ \E e \in Endpoints : handleInitiate(e)
    \/ \E m \in StubNames, a \in Args : remoteMethod("A", m, a)
    \/ \E e \in Endpoints : \E r \in DOMAIN calls[e] : IterNext(e, r)
    \/ \E e \in Endpoints : \E r \in DOMAIN calls[e] : IterReturn(e, r)
    \/ \E e \in Endpoints : \E r \in DOMAIN calls[e] : IterThrow(e, r)
    \/ \E e \in Endpoints : handleRequest(e)
    \/ \E e \in Endpoints : \E t \in tasks[e] : RequestSettles(e, t)
    \/ \E e \in Endpoints : handleResponse(e)
    \/ \E e \in Endpoints : handleRequestNextItem(e)
    \/ \E e \in Endpoints : \E t \in tasks[e] : \E o \in {"yield", "done", "throw"} : NextSettles(e, t, o)
    \/ \E e \in Endpoints : handleCancelIterator(e)

SpecMulti == Init /\ [][NextMulti]_vars

\* ================================================================ claims
\* The ids stub calls get: 0 is the id of sendInitiate.
CallIds == 1..MaxCalls

IsPrefix(a, b) == Len(a) <= Len(b) /\ \A i \in 1..Len(a) : a[i] = b[i]

\* The RequestNextItem messages for call r of e that are on their way.
InFlightNext(e, r) ==
    Cardinality({i \in 1..Len(chan[Peer(e)]) :
        chan[Peer(e)][i].type = "RequestNextItem" /\ chan[Peer(e)][i].reqId = r})

\* C1: every completed call was completed with the one reply the peer posted
\* for the Request of that call (same reqId, same method and arguments), the
\* value of a Resolve or the deserialized error of a Reject, in whatever order
\* the replies arrive.
C1_Correlation ==
    \A e \in Endpoints : \A r \in DOMAIN calls[e] :
        LET c == calls[e][r]
            p == Peer(e)
        IN  c.result # "pending" =>
                /\ r \in DOMAIN served[p]
                /\ served[p][r].method = c.method
                /\ served[p][r].args = c.args
                /\ Len(served[p][r].replies) = 1
                /\ LET m == served[p][r].replies[1] IN
                    /\ m.reqId = r
                    /\ IF c.result = "resolved"
                       THEN m.type = "Resolve" /\ c.value = m.result
                       ELSE m.type = "Reject" /\ c.value = deserializeError(m.error)
                /\ (c.result = "resolved" /\ HostOutcome(c.method) = "plain")
                        => c.value = HostResult(c.method, c.args)

\* Two calls with different arguments were both received by the peer, and the
\* later one is completed while the earlier one is still pending.
C1_Witness ==
    \E e \in Endpoints : \E r1, r2 \in DOMAIN calls[e] :
        /\ r1 < r2
        /\ calls[e][r1].method = "increment" /\ calls[e][r2].method = "increment"
        /\ calls[e][r1].args # calls[e][r2].args
        /\ r1 \in DOMAIN served[Peer(e)]
        /\ calls[e][r1].result = "pending"
        /\ calls[e][r2].result = "resolved"

C2_ReplyOk(e, r) ==
    LET s == served[e][r] IN
    IF s.running THEN s.replies = <<>>
    ELSE /\ Len(s.replies) = 1
         /\ s.replies[1].reqId = r
         /\ CASE ~Resolvable(<<>>, s.method) -> s.replies[1].type = "Reject"
              [] HostOutcome(s.method) = "plain" ->
                    s.replies[1] = ResolveMessage(r, HostResult(s.method, s.args))
              [] HostOutcome(s.method) = "stream" ->
                    s.replies[1] = ResolveMessage(r, Undefined)
              [] OTHER ->
                    s.replies[1] = RejectMessage(r, serializeError(HostError(s.method, s.args)))

\* C2: while handleRequest awaits the method it has posted nothing for the
\* Request; once the method has settled it has posted exactly one reply with
\* the Request's reqId: Resolve with the value, Resolve without a value for a
\* stream, Reject with the serialized error; and every Request received is
\* eventually answered.
C2_ExactlyOneReply ==
    /\ [](\A e \in Endpoints : \A r \in DOMAIN served[e] : C2_ReplyOk(e, r))
    /\ \A e \in Endpoints : \A r \in CallIds :
            (r \in DOMAIN served[e]) ~> (r \in DOMAIN served[e] /\ ~served[e][r].running)

\* One endpoint has answered a stream with a value-less Resolve and a method
\* that threw with a Reject.
C2_Witness ==
    \E e \in Endpoints : \E r1, r2 \in DOMAIN served[e] :
        /\ ~served[e][r1].running /\ served[e][r1].method = "getItems"
        /\ ~served[e][r2].running /\ served[e][r2].method = "fail"

\* C3: no completion handle is resolved or rejected more than once, and no
\* entry of the pending table holds a handle that was already completed, also
\* when replies arrive twice or late.
C3_AtMostOnce ==
    \A e \in Endpoints :
        /\ \A h \in DOMAIN settled[e] : settled[e][h] <= 1
        /\ \A k \in DOMAIN requests[e] : requests[e][k] \notin DOMAIN settled[e]

\* A second reply for a call that was already completed has been dropped.
C3_Witness ==
    \E r \in dropped["A"] :
        /\ r \in DOMAIN calls["A"]
        /\ Handle(r, 0) \in DOMAIN settled["A"]
        /\ calls["A"][r].iter = "none"

\* C4: handling a Resolve or Reject whose reqId has no entry in the pending
\* table changes nothing but the inbox: tables, counter, handles, tasks and
\* the caller's calls stay as they are and nothing is sent.
C4_LateReplyDropped ==
    [][\A e \in Endpoints :
        (/\ Inbox(e, "Resolve") \/ Inbox(e, "Reject")
         /\ Head(chan[e]).reqId \notin DOMAIN requests[e]
         /\ chan'[e] = Tail(chan[e]))
        => /\ UNCHANGED <<lastReqId, requests, asyncIterators, remote, initiateError,
                          handshake, listening, tasks, calls, served, settled>>
           /\ chan'[Peer(e)] = chan[Peer(e)]]_vars

\* A reply that arrived for a stream after its consumer cancelled it has been
\* dropped.
C4_Witness ==
    \E r \in dropped["A"] :
        /\ r \in DOMAIN calls["A"]
        /\ calls["A"][r].iter = "cancelled"
        /\ calls["A"][r].result = "resolved"

C6_InOrder ==
    \A e \in Endpoints : \A r \in DOMAIN calls[e] :
        LET c == calls[e][r] IN
        /\ \A i \in 1..Len(c.items) : c.items[i] = HostItem(c.args, i - 1)
        /\ IF r \in DOMAIN served[Peer(e)]
           THEN IsPrefix(c.items, served[Peer(e)][r].yielded)
           ELSE c.items = <<>>

\* Two streams with different arguments are consumed side by side.
C6_Witness ==
    \E e \in Endpoints : \E r1, r2 \in DOMAIN calls[e] :
        /\ r1 # r2
        /\ calls[e][r1].args # calls[e][r2].args
        /\ Len(calls[e][r1].items) = 2
        /\ Len(calls[e][r2].items) = 1
        /\ calls[e][r2].iter = "waitItem"

\* C7: a generator is advanced only by RequestNextItem: it was pulled at most
\* as often as RequestNextItem was received for its reqId, it yielded at most
\* as often as it was pulled, and never more items than the consumer asked for.
C7_LazyPull ==
    \A e \in Endpoints : \A r \in DOMAIN served[e] :
        LET s == served[e][r] IN
        /\ s.pulled <= s.rni
        /\ Len(s.yielded) <= s.pulled
        /\ r \in DOMAIN calls[Peer(e)] /\ Len(s.yielded) <= calls[Peer(e)][r].rniSent

\* A stream is open and acknowledged, and nothing has been pulled from it.
C7_Witness ==
    \E e \in Endpoints : \E r \in DOMAIN served[e] :
        /\ served[e][r].gen = "active"
        /\ served[e][r].pulled = 0
        /\ calls[Peer(e)][r].result = "resolved"

\* C8 as stated: a stream iterated to exhaustion has sent exactly as many
\* RequestNextItem as it delivered items.
C8_Original ==
    \A e \in Endpoints : \A r \in DOMAIN calls[e] :
        calls[e][r].iter = "done" => calls[e][r].rniSent = Len(calls[e][r].items)

\* C8 amended: a stream iterated to exhaustion has delivered the n items its
\* generator yielded and has sent exactly n + 1 RequestNextItem, one per item
\* and one that was answered done.
C8_PullCount ==
    \A e \in Endpoints : \A r \in DOMAIN calls[e] :
        LET c == calls[e][r] IN
        c.iter = "done" =>
            /\ c.rniSent = Len(c.items) + 1
            /\ r \in DOMAIN served[Peer(e)]
            /\ c.items = served[Peer(e)][r].yielded
            /\ served[Peer(e)][r].rni = Len(c.items) + 1

\* A stream of two items was iterated to exhaustion.
C8_Witness ==
    \E e \in Endpoints : \E r \in DOMAIN calls[e] :
        calls[e][r].iter = "done" /\ Len(calls[e][r].items) = 2

\* The consumer has cancelled call r of e after it received an item.
C9_Cancelled(e, r) ==
    /\ r \in DOMAIN calls[e]
    /\ calls[e][r].iter = "cancelled"
    /\ Len(calls[e][r].items) >= 1

\* C9: a consumer that stops after at least one item has sent exactly one
\* CancelIterator and processes no reply for that reqId afterwards; the
\* generator's return() is called at most once, and eventually once.
C9_Cancellation ==
    /\ [](\A e \in Endpoints : \A r \in DOMAIN calls[e] :
            /\ calls[e][r].cancelSent <= 1
            /\ C9_Cancelled(e, r) =>
                    /\ calls[e][r].cancelSent = 1
                    /\ calls[e][r].lateReplies = 0
                    /\ r \notin DOMAIN requests[e]
                    /\ served[Peer(e)][r].returned <= 1)
    /\ \A e \in Endpoints : \A r \in CallIds :
            C9_Cancelled(e, r) ~>
                (r \in DOMAIN served[Peer(e)] /\ served[Peer(e)][r].returned = 1)

\* A stream was cancelled after one item and its generator has been returned.
C9_Witness ==
    \E e \in Endpoints : \E r \in DOMAIN calls[e] :
        /\ C9_Cancelled(e, r)
        /\ Len(calls[e][r].items) = 1
        /\ served[Peer(e)][r].returned = 1
        /\ r \notin DOMAIN asyncIterators[Peer(e)]

\* C10 as stated: once the consumer has called the iterator's return() or
\* throw(), its pending table holds no entry for the call's reqId.
C10_NoEntryAfterCancel ==
    \A e \in Endpoints : \A r \in DOMAIN calls[e] :
        calls[e][r].iter = "cancelled" => r \notin DOMAIN requests[e]

\* e takes the CancelIterator at the head of its inbox in this step.
CancelHandled(e) == Inbox(e, "CancelIterator") /\ chan'[e] = Tail(chan[e])

\* C11: when a CancelIterator arrives for a reqId the producer holds an
\* iterator for, the step calls that generator's return() once, removes the
\* entry (and no other) and posts nothing; no generator is ever returned twice.
C11_CancelActive ==
    /\ [][\A e \in Endpoints :
            (CancelHandled(e) /\ Head(chan[e]).reqId \in DOMAIN asyncIterators[e]) =>
                LET r == Head(chan[e]).reqId IN
                /\ served'[e][r].returned = served[e][r].returned + 1
                /\ \A q \in DOMAIN served[e] \ {r} : served'[e][q] = served[e][q]
                /\ asyncIterators'[e] = Drop(asyncIterators[e], r)
                /\ chan'[Peer(e)] = chan[Peer(e)]
                /\ UNCHANGED <<requests, lastReqId, tasks>>]_vars
    /\ [](\A e \in Endpoints : \A r \in DOMAIN served[e] : served[e][r].returned <= 1)

\* A stream was cancelled right after it was opened: its generator has been
\* returned without ever being pulled, and nothing is on its way back.
C11_Witness ==
    \E e \in Endpoints : \E r \in DOMAIN served[e] :
        /\ served[e][r].returned = 1
        /\ served[e][r].pulled = 0
        /\ served[e][r].gen = "closed"
        /\ r \notin DOMAIN asyncIterators[e]
        /\ chan[Peer(e)] = <<>>

\* C12: when a CancelIterator arrives for a reqId the producer holds no
\* iterator for, the step changes nothing but the inbox: no return() is
\* called, no table changes, nothing is posted.  So a CancelIterator handled a
\* second time adds nothing to the first: return() was still called once.
C12_CancelNoStream ==
    /\ [][\A e \in Endpoints :
            (CancelHandled(e) /\ Head(chan[e]).reqId \notin DOMAIN asyncIterators[e]) =>
                /\ chan'[Peer(e)] = chan[Peer(e)]
                /\ UNCHANGED <<lastReqId, requests, asyncIterators, remote, initiateError,
                               handshake, listening, tasks, calls, served, settled,
                               strays, dropped, propagated, errored>>]_vars
    /\ [](\A e \in Endpoints : \A r \in DOMAIN served[e] : served[e][r].returned <= 1)

\* The consumer returned a stream twice; the first CancelIterator ended the
\* stream, the second found no iterator, and both have been handled.
C12_Witness ==
    \E e \in Endpoints : \E r \in DOMAIN served[e] :
        /\ calls[Peer(e)][r].cancelSent = 2
        /\ served[e][r].returned = 1
        /\ r \notin DOMAIN asyncIterators[e]
        /\ chan[e] = <<>>

\* The Rejects on their way to e that handleRequestNextItem made up for a
\* reqId it had no iterator for.
NoIteratorRejects(e) ==
    {i \in 1..Len(chan[e]) :
        /\ chan[e][i].type = "Reject"
        /\ chan[e][i].error = serializeError(NoIteratorError(chan[e][i].reqId))}

\* C13 as stated: a RequestNextItem that finds no iterator because the
\* consumer's CancelIterator was handled before it is not answered with a
\* Reject: no such Reject is ever on its way to a consumer that has cancelled
\* the stream of that reqId.
C13_NoRejectAfterCancel ==
    \A e \in Endpoints : \A i \in NoIteratorRejects(e) :
        LET r == chan[e][i].reqId IN
        ~(/\ r \in DOMAIN calls[e]
          /\ calls[e][r].cancelSent > 0
          /\ r \in DOMAIN served[Peer(e)]
          /\ served[Peer(e)][r].returned = 1)

\* e's inbox lost its head, a message of this kind, in this step, and the one
\* message the step posted to the peer.
Handled(e, type) == Inbox(e, type) /\ chan'[e] = Tail(chan[e])

PostedOne(e) == Len(chan'[Peer(e)]) = Len(chan[Peer(e)]) + 1
                /\ SubSeq(chan'[Peer(e)], 1, Len(chan[Peer(e)])) = chan[Peer(e)]

LastPosted(e) == chan'[Peer(e)][Len(chan'[Peer(e)])]

\* C14: a Request for something the host has no function for, and a
\* RequestNextItem for a reqId without an iterator, are answered in the same
\* step with one Reject that carries the reqId and an error with a message;
\* the endpoint goes on listening and its tables, counter and suspended
\* handlers are as before.
C14_ProtocolError ==
    [][\A e \in Endpoints :
        (\/ /\ Handled(e, "Request")
            /\ ~Resolvable(Head(chan[e]).children, Head(chan[e]).method)
         \/ /\ Handled(e, "RequestNextItem")
            /\ Head(chan[e]).reqId \notin DOMAIN asyncIterators[e])
        => /\ PostedOne(e)
           /\ LastPosted(e).type = "Reject"
           /\ LastPosted(e).reqId = Head(chan[e]).reqId
           /\ LastPosted(e).error._type = "Reject"
           /\ LastPosted(e).error.message # ""
           /\ listening'[e]
           /\ UNCHANGED <<lastReqId, requests, asyncIterators, remote, initiateError,
                          handshake, listening, tasks>>]_vars

\* A call of a member the host has lost was rejected, and so was the first
\* step of an iteration over a call that returned no stream.
C14_Witness ==
    \E e \in Endpoints : \E r1, r2 \in DOMAIN calls[e] :
        /\ calls[e][r1].method = "removed"
        /\ calls[e][r1].result = "rejected"
        /\ calls[e][r1].value.message = "not a function"
        /\ calls[e][r2].method = "increment"
        /\ calls[e][r2].result = "resolved"
        /\ calls[e][r2].iter = "failed"
        /\ calls[e][r2].stepsSettled = 1

\* The suspended handleRequestNextItem of e that goes on in this step.
StepSettled(e, t) == t \in tasks[e] /\ t.kind = "next" /\ tasks'[e] = tasks[e] \ {t}

\* C15: a RequestNextItem that finds its iterator pulls from it once and
\* posts nothing until the pull settles.  When the pull settles one reply with
\* the reqId is posted: for an exhausted generator Resolve with done: true,
\* and the entry is removed; for a failed pull Reject, and the entry is
\* removed; for an item Resolve with the item and done: false, and the entry
\* stays.  No other entry is touched.
C15_ProducerStep ==
    [][\A e \in Endpoints :
        /\ (Handled(e, "RequestNextItem") /\ Head(chan[e]).reqId \in DOMAIN asyncIterators[e]) =>
                LET r == Head(chan[e]).reqId IN
                /\ served'[e][r].pulled = served[e][r].pulled + 1
                /\ chan'[Peer(e)] = chan[Peer(e)]
                /\ UNCHANGED asyncIterators
        /\ \A t \in tasks[e] : StepSettled(e, t) =>
                LET r == t.reqId
                    s == served[e][r]
                IN
                /\ PostedOne(e)
                /\ LastPosted(e).reqId = r
                /\ UNCHANGED <<requests, lastReqId>>
                /\ served'[e][r].pulled = s.pulled
                /\ CASE Len(served'[e][r].yielded) > Len(s.yielded) ->
                            /\ LastPosted(e) = ResolveMessage(r,
                                    IterResult(FALSE, HostItem(s.args, Len(s.yielded))))
                            /\ r \in DOMAIN asyncIterators[e]
                            /\ UNCHANGED asyncIterators
                     [] LastPosted(e).type = "Resolve" ->
                            /\ LastPosted(e).result.done
                            /\ asyncIterators'[e] = Drop(asyncIterators[e], r)
                     [] OTHER ->
                            /\ LastPosted(e).type = "Reject"
                            /\ asyncIterators'[e] = Drop(asyncIterators[e], r)]_vars

\* One stream failed on its second pull and its entry is gone, another has
\* produced an item and is still registered.
C15_Witness ==
    \E e \in Endpoints : \E r1, r2 \in DOMAIN served[e] :
        /\ Len(served[e][r1].yielded) = 1
        /\ served[e][r1].pulled = 2
        /\ served[e][r1].gen = "closed"
        /\ r1 \notin DOMAIN asyncIterators[e]
        /\ calls[Peer(e)][r1].iter = "failed"
        /\ Len(served[e][r2].yielded) = 1
        /\ r2 \in DOMAIN asyncIterators[e]
        /\ tasks[e] = {}

\* The messages sent through sendRequest by e that the channel still holds or
\* that the peer is working on.
SentUnanswered(e) ==
    {chan[Peer(e)][i].reqId : i \in {j \in 1..Len(chan[Peer(e)]) :
        chan[Peer(e)][j].type \in {"Initiate", "Request", "RequestNextItem"}}}
    \cup {t.reqId : t \in {u \in tasks[Peer(e)] : u.kind \in {"request", "next"}}}

\* C16 as stated: there is no state in which a message sent through
\* sendRequest has been handed to the channel and its reqId has no entry in
\* the sender's pending table.
C16_RegisteredWhenSent ==
    \A e \in Endpoints : \A r \in SentUnanswered(e) : r \in DOMAIN requests[e]

\* C17 as stated, its safety part: an entry of the pending table never holds
\* a handle whose Resolve or Reject was processed, and no entry is left for a
\* reqId whose stream the consumer has cancelled.
C17_NoEntrySurvives ==
    \A e \in Endpoints : \A k \in DOMAIN requests[e] :
        /\ requests[e][k] \notin DOMAIN settled[e]
        /\ k \in DOMAIN calls[e] => calls[e][k].cancelSent = 0

\* C18: an event that is none of the six kinds, or has no data, is taken by
\* the listener without any effect: tables, counter, handles, suspended
\* handlers and the caller's calls are as before, nothing is posted, the
\* listener stays attached, and the event is passed on to the other listeners.
\* An event of one of the six kinds is never passed on.
C18_UnknownIgnored ==
    /\ [][\A e \in Endpoints :
            (/\ listening[e] /\ chan[e] # <<>>
             /\ Head(chan[e]).type \notin MessageType
             /\ chan'[e] = Tail(chan[e]))
            => /\ ~handle(Head(chan[e]).type)
               /\ propagated'[e] = Append(propagated[e], Head(chan[e]))
               /\ chan'[Peer(e)] = chan[Peer(e)]
               /\ UNCHANGED <<lastReqId, requests, asyncIterators, remote, initiateError,
                              handshake, listening, tasks, calls, served, settled, dropped>>]_vars
    /\ [](\A e \in Endpoints : \A i \in 1..Len(propagated[e]) :
            propagated[e][i].type \notin MessageType)

\* An event without data was passed on to the other listeners, and a call of
\* the same endpoint has been completed.
C18_Witness ==
    /\ propagated["A"] = <<[type |-> "undefined"]>>
    /\ \E r \in DOMAIN calls["A"] :
        /\ calls["A"][r].result = "resolved"
        /\ calls["A"][r].method = "increment"

\* The ids e has allocated so far.
Allocated(e) == 0..(lastReqId[e] - 1)

\* C19: the counter of an endpoint starts at 0 and moves only by 1.  A step
\* that sends a new Initiate or Request moves it, and the message carries the
\* value the counter had, which no earlier message of this endpoint carried;
\* a RequestNextItem does not move it and carries the id of its call.  The
\* ids given out are exactly 0 .. counter - 1 (0 for the Initiate, the rest
\* for the calls), and every key of the pending table is one of them.
C19_ReqIds ==
    /\ [](\A e \in Endpoints :
            /\ \A k \in DOMAIN requests[e] : k \in Allocated(e)
            /\ DOMAIN calls[e] = Allocated(e) \ {0}
            /\ (handshake[e] = "idle") = (lastReqId[e] = 0))
    /\ [][\A e \in Endpoints :
            /\ lastReqId'[e] \in {lastReqId[e], lastReqId[e] + 1}
            /\ (Len(chan'[Peer(e)]) > Len(chan[Peer(e)])
                    /\ LastPosted(e).type \in {"Initiate", "Request"})
                => /\ LastPosted(e).reqId = lastReqId[e]
                   /\ lastReqId'[e] = lastReqId[e] + 1
            /\ (Len(chan'[Peer(e)]) > Len(chan[Peer(e)])
                    /\ LastPosted(e).type = "RequestNextItem")
                => /\ LastPosted(e).reqId \in Allocated(e) \ {0}
                   /\ lastReqId'[e] = lastReqId[e]
            /\ lastReqId'[e] # lastReqId[e]
                => /\ Len(chan'[Peer(e)]) > Len(chan[Peer(e)])
                   /\ LastPosted(e).type \in {"Initiate", "Request"}]_vars

\* An endpoint has given out 0, 1 and 2; both calls are still pending, and
\* the other endpoint has given out 0 only.
C19_Witness ==
    \E e \in Endpoints :
        /\ lastReqId[e] = 3
        /\ DOMAIN requests[e] = {1, 2}
        /\ lastReqId[Peer(e)] = 1

\* The replies for reqId r that are on their way to e.
RepliesInFlight(e, r) ==
    Cardinality({i \in 1..Len(chan[e]) :
        chan[e][i].type \in {"Resolve", "Reject"} /\ chan[e][i].reqId = r})

\* The handles of call r that e has completed.
Completed(e, r) == Cardinality({h \in DOMAIN settled[e] : h[1] = r})

\* C20: the ids of the two endpoints do not meet.  A call of e is completed
\* by what its own method and arguments give at the peer, whatever call of the
\* same number the peer has made; e gets for an id no more replies than its
\* peer posted for the Request and the RequestNextItems e sent with that id;
\* and an iterator e holds under r belongs to the peer's call r, whatever e's
\* own call r is.
C20_IndependentIds ==
    \A e \in Endpoints :
        /\ \A r \in DOMAIN calls[e] :
            LET c == calls[e][r]
                p == Peer(e)
                posted == IF r \in DOMAIN served[p]
                          THEN Len(served[p][r].replies) + served[p][r].rni ELSE 0
            IN
            /\ Completed(e, r) + RepliesInFlight(e, r) <= posted
            /\ c.result = "resolved" =>
                    /\ HostOutcome(c.method) \in {"plain", "stream"}
                    /\ HostOutcome(c.method) = "plain" => c.value = HostResult(c.method, c.args)
                    /\ HostOutcome(c.method) = "stream" => c.value = Undefined
            /\ c.result = "rejected" =>
                    /\ HostOutcome(c.method) = "throw"
                    /\ c.value = deserializeError(serializeError(HostError(c.method, c.args)))
            /\ \A i \in 1..Len(c.items) : c.items[i] = HostItem(c.args, i - 1)
        /\ \A r \in DOMAIN asyncIterators[e] :
            /\ served[e][r].method = calls[Peer(e)][r].method
            /\ served[e][r].args = calls[Peer(e)][r].args
            /\ HostOutcome(served[e][r].method) = "stream"

\* Both endpoints have a call with id 1 under way, with different arguments:
\* one holds the other's stream under 1 and has its own entry under 1.
C20_Witness ==
    \E e \in Endpoints :
        /\ 1 \in DOMAIN requests[e] /\ 1 \in DOMAIN requests[Peer(e)]
        /\ 1 \in DOMAIN asyncIterators[e]
        /\ calls[e][1].method = "increment"
        /\ calls[e][1].args # calls[Peer(e)][1].args
        /\ Len(calls[Peer(e)][1].items) = 1

\* The Initiates e has sent: those on their way and the one the peer handled.
InitiatesSent(e) ==
    Cardinality({i \in 1..Len(chan[Peer(e)]) : chan[Peer(e)][i].type = "Initiate"})
    + (IF remote[Peer(e)] # Undefined THEN 1 ELSE 0)

\* The acknowledgements of its Initiate that have reached e or are on their way.
AcksSent(e) == RepliesInFlight(e, 0) + Completed(e, 0)

\* C21: an endpoint that has run promisify has sent one Initiate, no more,
\* and gets at most one acknowledgement for it, sent only after the peer
\* handled the Initiate; its sendInitiate has returned only after that one
\* acknowledgement was processed.  Once both endpoints have run promisify,
\* both handshakes complete, however the two exchanges interleave.
C21_Handshake ==
    /\ [](\A e \in Endpoints :
            /\ InitiatesSent(e) = (IF handshake[e] = "idle" THEN 0 ELSE 1)
            /\ AcksSent(e) = (IF remote[Peer(e)] # Undefined THEN 1 ELSE 0)
            /\ handshake[e] = "done" => Completed(e, 0) = 1 /\ RepliesInFlight(e, 0) = 0
            /\ handshake[e] # "failed")
    /\ (\A e \in Endpoints : handshake[e] # "idle")
            ~> (\A e \in Endpoints : handshake[e] = "done")

\* Both Initiates crossed on the channel: each endpoint handled the other's
\* while its own was unacknowledged, and one handshake is complete before the
\* other.
C21_Witness ==
    \E e \in Endpoints :
        /\ handshake[e] = "done"
        /\ handshake[Peer(e)] = "pending"
        /\ remote[e] # Undefined /\ remote[Peer(e)] # Undefined
        /\ RepliesInFlight(Peer(e), 0) = 1

\* C22: an endpoint that fails to build the remote from a received Initiate
\* answers it with one Reject that carries the Initiate's reqId, and no
\* Resolve, and keeps the error.  Its peer's sendInitiate then throws, and so
\* does its own, which never returns; a promisify whose sendInitiate threw
\* has removed its listener.
C22_HandshakeFailure ==
    /\ [][\A e \in Endpoints :
            (Handled(e, "Initiate") /\ "deep" \in DOMAIN Head(chan[e]).remote) =>
                /\ PostedOne(e)
                /\ LastPosted(e).type = "Reject"
                /\ LastPosted(e).reqId = Head(chan[e]).reqId
                /\ initiateError'[e]]_vars
    /\ [](\A e \in Endpoints :
            /\ initiateError[e] => handshake[e] # "done" /\ handshake[Peer(e)] # "done"
            /\ handshake[e] = "failed" => ~listening[e]
            /\ handshake[e] = "failed" => initiateError[e] \/ initiateError[Peer(e)])
    /\ \A e \in Endpoints :
            initiateError[e] ~> (handshake[e] = "failed" /\ handshake[Peer(e)] = "failed")

\* One endpoint could not hydrate the other's host: both promisify calls have
\* thrown, the first because of its own error although its Initiate was
\* acknowledged with a Resolve.
C22_Witness ==
    \E e \in Endpoints :
        /\ initiateError[e] /\ ~initiateError[Peer(e)]
        /\ handshake[e] = "failed" /\ handshake[Peer(e)] = "failed"
        /\ remote[Peer(e)] # Undefined
        /\ ~listening[e] /\ ~listening[Peer(e)]

\* The 'error' event reaches e's listener in this step.
ErrorFired(e) == ~errored[e] /\ errored'[e]

C24_NoSweep ==
    [][\A e \in Endpoints :
        (ErrorFired(e) /\ handshake[e] = "done") =>
            /\ requests'[e] = requests[e]
            /\ UNCHANGED <<asyncIterators, lastReqId, settled, calls, tasks, chan,
                           handshake, listening>>]_vars

\* The channel has failed with A connected, and both calls of A are still
\* pending in its table.
C24_Witness ==
    /\ errored["A"]
    /\ handshake["A"] = "done"
    /\ DOMAIN requests["A"] = {1, 2}
    /\ calls["A"][1].result = "pending"
    /\ calls["A"][2].result = "pending"
    /\ settled["A"] = Settle(EmptyMap, Handle(0, 0))

\* C25 as stated: a call of a method that threw is rejected with, for an
\* Error, an Error that has the message, the stack and the custom field of
\* the one thrown, and for any other value, that value as it was thrown.
C25_ErrorFidelity ==
    \A e \in Endpoints : \A r \in DOMAIN calls[e] :
        LET c == calls[e][r]
            thrown == HostError(c.method, c.args)
        IN  (c.method = "fail" /\ c.result # "pending") =>
                /\ c.result = "rejected"
                /\ IF IsError(thrown)
                   THEN /\ IsError(c.value)
                        /\ c.value.message = thrown.message
                        /\ c.value.stack = thrown.stack
                        /\ c.value.code = thrown.code
                   ELSE c.value = thrown

\* C26: the exposed method is invoked with the arguments the stub was called
\* with, and a call that has resolved has resolved with the value that
\* invocation returned, which is also the value of the one Resolve posted.
C26_RoundTrip ==
    \A e \in Endpoints : \A r \in DOMAIN calls[e] :
        LET c == calls[e][r]
            p == Peer(e)
        IN  c.method = "increment" =>
                /\ r \in DOMAIN served[p] =>
                        /\ served[p][r].method = c.method
                        /\ served[p][r].args = c.args
                        /\ \A i \in 1..Len(served[p][r].replies) :
                                served[p][r].replies[i] =
                                    ResolveMessage(r, HostResult(c.method, served[p][r].args))
                /\ c.result # "pending" =>
                        /\ c.result = "resolved"
                        /\ c.value = HostResult(c.method, c.args)

\* Two calls with different arguments have resolved, each with its own value.
C26_Witness ==
    \E r1, r2 \in DOMAIN calls["A"] :
        /\ calls["A"][r1].method = "increment" /\ calls["A"][r1].args = 42
        /\ calls["A"][r2].method = "increment" /\ calls["A"][r2].args = 101
        /\ calls["A"][r1].value = Num(43)
        /\ calls["A"][r2].value = Num(102)

\* Every property name of an object, own or inherited.
RECURSIVE AllKeys(_, _)
AllKeys(objs, o) == IF o = 0 THEN {} ELSE OwnKeys(objs[o]) \cup AllKeys(objs, objs[o].proto)

\* The objects of a host that its clone has a counterpart for.
Exposed(h) == DOMAIN clone(h).objs

\* Two positions (object, key) of a remote are the same when the paths that
\* lead to them end at the same object and key.
Position(g, path) == <<Parent(g, path).v, path[Len(path)]>>

\* C27: on every host, also one with a cycle, clone and hydrateRemote return
\* without overflowing the stack and create, respectively visit, each object
\* once; two calls through different paths that end at the same member of
\* the host (a.self.method and a.method) send the same Request and are
\* dispatched to the same function on the same receiver.
C27_CircularReference ==
    \A e \in Endpoints :
        LET h == host[e]
            c == cloneRun(h)
            y == hydrateRun(clone(h))
            p == Peer(e)
        IN  /\ ~c.overflow /\ ~y.overflow
            /\ \A o \in DOMAIN c.made : c.made[o] = 1
            /\ DOMAIN y.made = DOMAIN c.objs
            /\ \A o \in DOMAIN y.made : y.made[o] = 1
            /\ handshake[e] # "failed"
            /\ \A r1, r2 \in DOMAIN calls[p] :
                    (/\ r1 \in DOMAIN served[e] /\ r2 \in DOMAIN served[e]
                     /\ Position(h, calls[p][r1].path) = Position(h, calls[p][r2].path)) =>
                        /\ served[e][r1].children = served[e][r2].children
                        /\ served[e][r1].method = served[e][r2].method
                        /\ served[e][r1].fn = served[e][r2].fn
                        /\ served[e][r1].fn # ""
                        /\ served[e][r1].receiver = served[e][r2].receiver

\* B exposes a.self = a; A's calls a.increment() and a.self.increment() have
\* both been served and have resolved.
C27_Witness ==
    /\ host["B"] = CircularHost
    /\ \E r1, r2 \in DOMAIN calls["A"] :
        /\ calls["A"][r1].path = <<"increment">>
        /\ calls["A"][r2].path = <<"self", "increment">>
        /\ calls["A"][r1].result = "resolved" /\ calls["A"][r2].result = "resolved"
        /\ served["B"][r1].fn = "a.increment" /\ served["B"][r2].fn = "a.increment"

\* The remote has a stub at (o, key) whose path, walked from the root of the
\* host, ends at object o and at the function the host has at (o, key).
StubRight(h, g, o, key) ==
    LET v == Get(g.objs, o, key) IN
    /\ v.k = "stub"
    /\ LET t == Target(h, v.children, v.method) IN
        /\ t.receiver = o
        /\ t.member.k = "fn"
        /\ t.member = Get(h.objs, o, key)

\* The remote an endpoint built from its peer's Initiate.
Hydrated_Remote(e) == remote[e] # Undefined /\ "deep" \notin DOMAIN remote[e]

DuplexIds == 0..(2 * MaxCalls)

\* C29: a Request whose host method is suspended does not keep its endpoint
\* from handling what arrives (every inbox of a listening endpoint is emptied
\* again); a method that calls back the remote while it serves a call replies
\* only after its own call has completed, and every call, the one made from
\* inside a host method and the one that method serves, completes.
C29_FullDuplex ==
    /\ [](\A e \in Endpoints : \A r \in DOMAIN served[e] :
            (served[e][r].fn = "relay" /\ served[e][r].replies # <<>>) =>
                /\ served[e][r].replies = <<ResolveMessage(r, HostResult("relay", served[e][r].args))>>
                /\ \E b \in DOMAIN calls[e] :
                    /\ calls[e][b].method = "increment"
                    /\ calls[e][b].args = served[e][r].args
                    /\ calls[e][b].result = "resolved")
    /\ \A e \in Endpoints : (listening[e] /\ chan[e] # <<>>) ~> (chan[e] = <<>>)
    /\ \A e \in Endpoints : \A r \in DuplexIds :
            (r \in DOMAIN calls[e]) ~> (r \in DOMAIN calls[e] /\ calls[e][r].result = "resolved")

\* B's handling of A's relay is suspended, A's call is pending, and B has
\* handled the Resolve of the call it made back to A in the meantime.
C29_Witness ==
    \E t \in tasks["B"] : \E r \in DOMAIN calls["A"] :
        /\ "awaiting" \in DOMAIN t
        /\ t.reqId = r
        /\ calls["A"][r].method = "relay"
        /\ calls["A"][r].result = "pending"
        /\ calls["B"][t.awaiting].result = "resolved"
        /\ t.awaiting \in DOMAIN served["A"]

\* The calls of e one of whose sends failed.
Failures(e) == {r \in DOMAIN calls[e] : "sendFailed" \in DOMAIN calls[e][r]}

\* C30: a send that fails leaves the pending table and the channel as they
\* were, and is reported as a rejection of the operation that sent: of the
\* call's promise for a Request, of the promise of next() for a
\* RequestNextItem, of promisify for the Initiate.
C30_SendFailure ==
    /\ [](\A e \in Endpoints :
            /\ \A r \in Failures(e) :
                /\ r \notin DOMAIN requests[e]
                /\ IF calls[e][r].steps = 0
                   THEN calls[e][r].result = "rejected"
                   ELSE calls[e][r].iter = "failed"
            /\ handshake[e] = "failed" => requests[e] = EmptyMap /\ ~listening[e])
    /\ [][\A e \in Endpoints :
            ((Failures(e))' # Failures(e) \/ (handshake[e] = "idle" /\ handshake'[e] = "failed"))
                => requests'[e] = requests[e] /\ chan' = chan]_vars

\* The Reject a producer posts for a Resolve it could not send.
UnsentReject(r) == RejectMessage(r, serializeError(DataCloneError))

\* The caller's call, or the step of its iteration that was in flight, has
\* been rejected with the error of the failed send.
UnsentDelivered(c) ==
    LET err == deserializeError(serializeError(DataCloneError)) IN
    \/ c.result = "rejected" /\ c.value = err
    \/ c.result = "resolved" /\ c.iter = "failed" /\ c.stepError = err

UnsentInFlight(e, r) ==
    Cardinality({i \in 1..Len(chan[Peer(e)]) : chan[Peer(e)][i] = UnsentReject(r)})

\* C31: for a result or a stream item whose Resolve could not be sent the
\* producer has posted one Reject with the same reqId, which is in flight or
\* has rejected the caller's call or iteration step; the caller is rejected
\* in the end.
C31_SerializationError ==
    /\ [](\A e \in Endpoints : \A r \in DOMAIN served[e] :
            served[e][r].unsent > 0 =>
                /\ served[e][r].unsent = 1
                /\ r \in DOMAIN calls[Peer(e)]
                /\ UnsentInFlight(e, r)
                        + (IF UnsentDelivered(calls[Peer(e)][r]) THEN 1 ELSE 0) = 1
                /\ r \in DOMAIN requests[Peer(e)] <=> UnsentInFlight(e, r) = 1)
    /\ \A e \in Endpoints : \A r \in DuplexIds :
            (r \in DOMAIN served[e] /\ served[e][r].unsent > 0)
                ~> (r \in DOMAIN calls[Peer(e)] /\ UnsentDelivered(calls[Peer(e)][r]))

\* One call was rejected because its result could not be sent, and the second
\* step of a stream because its item could not.
C31_Witness ==
    \E r1, r2 \in DOMAIN calls["A"] :
        /\ calls["A"][r1].method = "increment"
        /\ UnsentDelivered(calls["A"][r1])
        /\ calls["A"][r2].method = "getItems"
        /\ calls["A"][r2].result = "resolved"
        /\ Len(calls["A"][r2].items) = 1
        /\ UnsentDelivered(calls["A"][r2])
        /\ served["B"][r2].unsent = 1

\* C38: a stream whose opening Resolve could not be sent has no entry in
\* asyncIterators and was answered with one Reject and no Resolve; an entry
\* exists only for a reqId whose opening Resolve was posted.
C38_FailedOpen ==
    \A e \in Endpoints :
        /\ \A r \in DOMAIN served[e] :
                served[e][r].gen = "unregistered" =>
                    /\ r \notin DOMAIN asyncIterators[e]
                    /\ served[e][r].replies = <<UnsentReject(r)>>
        /\ \A r \in DOMAIN asyncIterators[e] :
                /\ r \in DOMAIN served[e]
                /\ served[e][r].replies = <<ResolveMessage(r, Undefined)>>

\* The opening Resolve of a stream could not be sent, the call was rejected,
\* and the first next() of the consumer failed without sending anything.
C38_Witness ==
    \E r \in DOMAIN calls["A"] :
        /\ calls["A"][r].method = "getItems"
        /\ r \in DOMAIN served["B"]
        /\ served["B"][r].gen = "unregistered"
        /\ UnsentDelivered(calls["A"][r])
        /\ calls["A"][r].iter = "failed"
        /\ calls["A"][r].rniSent = 0

\* The error the caller of c gets when the method of c, or its generator,
\* throws.
OwnError(c) == deserializeError(serializeError(HostError(c.method, c.args)))

\* The value is an error thrown by a host (not one the protocol made).
Thrown(v) == IsError(v) /\ v.message = "boom"

\* C32: a call is rejected only by the error its own method threw; a step of
\* an iteration fails with a host's error only if it is the step during which
\* the generator of the same call threw, or the first step of a call that was
\* itself rejected; a generator that throws while producing the k-th item
\* leaves the opening call resolved and fails the k-th step, after k - 1 items.
C32_ExactCallSite ==
    \A e \in Endpoints : \A r \in DOMAIN calls[e] :
        LET c == calls[e][r]
            p == Peer(e)
        IN  /\ c.result = "rejected" => c.method = "fail" /\ c.value = OwnError(c)
            /\ (c.method = "fail" /\ c.result # "pending") => c.result = "rejected"
            /\ Thrown(c.stepError) =>
                    /\ c.iter = "failed"
                    /\ c.stepError = OwnError(c)
                    /\ \/ c.result = "rejected" /\ c.stepsSettled = 0
                       \/ /\ c.result = "resolved"
                          /\ r \in DOMAIN served[p]
                          /\ served[p][r].threw = c.stepsSettled
                          /\ Len(c.items) = c.stepsSettled - 1
            /\ (r \in DOMAIN served[p] /\ served[p][r].threw > 0) =>
                    /\ c.result = "resolved" /\ c.value = Undefined
                    /\ c.steps = served[p][r].threw
                    /\ c.iter \in {"waitItem", "failed"}
                    /\ c.iter = "failed" => Thrown(c.stepError)

\* The generator of one call threw while producing its second item: the
\* second step of that call failed after one item, and another call, made to
\* a method that returns, has resolved.
C32_Witness ==
    \E e \in Endpoints : \E r1, r2 \in DOMAIN calls[e] :
        /\ calls[e][r1].method = "getItems"
        /\ calls[e][r1].result = "resolved"
        /\ calls[e][r1].iter = "failed"
        /\ calls[e][r1].stepsSettled = 2
        /\ Len(calls[e][r1].items) = 1
        /\ Thrown(calls[e][r1].stepError)
        /\ calls[e][r2].method = "increment"
        /\ calls[e][r2].result = "resolved"

\* C33: two promisified handlers on one worker do not conflict.  The Initiate
\* of the second handler of a side is left to the second listener of the other
\* side and never handled by the first; the remote of the first handler is the
\* stub graph of the host of its own counterpart; and every Request the first
\* handler dispatches names a function of its own host.
SecondIn(queue) == Cardinality({i \in DOMAIN queue : queue[i] = SecondInitiate})

C33_MultiplePromisifies ==
    /\ strays = SecondIn(chan["A"]) + SecondIn(chan["B"])
                + SecondIn(propagated["A"]) + SecondIn(propagated["B"])
    /\ \A e \in Endpoints :
        /\ remote[e] # Undefined => remote[e] = hydrateRemote(clone(host[Peer(e)]))
        /\ \A r \in DOMAIN served[e] : served[e][r].fn # ""

\* C34: the producer holds an Active Stream for reqId only if it received a
\* Request with that reqId whose method returned a stream, has sent the
\* value-less opening Resolve for it, and has since neither answered a step of
\* it with done: true or a Reject nor handled a CancelIterator for it; a
\* Request whose result is plain or a failure never has an entry.
Opened(e, r) ==
    /\ r \in DOMAIN served[e]
    /\ HostOutcome(served[e][r].method) = "stream"
    /\ served[e][r].replies = <<ResolveMessage(r, Undefined)>>

Terminated(s) == s.gen # "active" \/ s.threw > 0 \/ s.returned > 0

C34_ActiveStreamLifecycle ==
    \A e \in Endpoints :
        /\ \A r \in DOMAIN asyncIterators[e] : Opened(e, r) /\ ~Terminated(served[e][r])
        /\ \A r \in DOMAIN served[e] :
                HostOutcome(served[e][r].method) # "stream" => r \notin DOMAIN asyncIterators[e]

\* An Active Stream that has delivered an item next to a Request with a plain
\* or failed result that has been answered.
C34_Witness ==
    \E r, q \in DOMAIN served["B"] :
        /\ r \in DOMAIN asyncIterators["B"]
        /\ Len(served["B"][r].yielded) >= 1
        /\ HostOutcome(served["B"][q].method) # "stream"
        /\ ~served["B"][q].running

\* C35: the consumer's first iteration step.  No RequestNextItem is sent for a
\* call before its opening Resolve has been processed; the items the iterator
\* delivers come from the Resolves that follow the RequestNextItems, the first
\* of them being the first item the generator produced, while the value of the
\* call stays the value-less opening result; and when the call is answered
\* with a Reject, no RequestNextItem is ever sent for it and a first step that
\* was taken has failed with the error of that Reject.
C35_FirstStep ==
    \A e \in Endpoints : \A r \in DOMAIN calls[e] :
        LET c == calls[e][r] IN
        /\ c.rniSent > 0 => c.result = "resolved"
        /\ (\E i \in DOMAIN chan[Peer(e)] :
                chan[Peer(e)][i] = RequestNextItemMessage(r)) => c.result = "resolved"
        /\ Len(c.items) >= 1 =>
                /\ c.items[1] = HostItem(c.args, 0)
                /\ c.value = Undefined
                /\ c.rniSent >= Len(c.items)
        /\ c.result = "rejected" =>
                /\ c.rniSent = 0
                /\ c.items = <<>>
                /\ c.steps > 0 => c.iter = "failed" /\ c.stepError = c.value

\* A stream whose first item was delivered, next to a call that was rejected
\* and whose first step failed with an error.
C35_Witness ==
    \E r, q \in DOMAIN calls["A"] :
        /\ Len(calls["A"][r].items) >= 1
        /\ calls["A"][q].result = "rejected"
        /\ calls["A"][q].steps > 0
        /\ IsError(calls["A"][q].stepError)

\* C36 as stated: whenever the sendInitiate of an endpoint has completed
\* successfully, the endpoint has processed the Initiate of its peer, so the
\* remote it returns is never unset and is the stub graph built from the
\* surface of the peer's host.
InitiateProcessed(e) ==
    /\ handshake[Peer(e)] # "idle"
    /\ \A i \in DOMAIN chan[e] : chan[e][i].type # "Initiate"

C36_Original ==
    \A e \in Endpoints :
        handshake[e] = "done" =>
            /\ InitiateProcessed(e)
            /\ remote[e] # Undefined
            /\ remote[e] = hydrateRemote(clone(host[Peer(e)]))

\* C36, amended: whenever the sendInitiate of an endpoint has completed
\* successfully, the endpoint has processed the Initiate of its peer, so the
\* remote it returns is the value built from the peer's surface: the stub
\* graph of the peer's host, or undefined when the peer exposes no host.
C36_RemoteWhenInitiated ==
    \A e \in Endpoints :
        handshake[e] = "done" =>
            /\ InitiateProcessed(e)
            /\ remote[e] = hydrateRemote(clone(host[Peer(e)]))
            /\ host[Peer(e)] # Undefined => remote[e] # Undefined

\* Both handshakes have completed between an endpoint that exposes nothing
\* and one that exposes a host.
C36_Witness ==
    /\ host["A"] = Undefined
    /\ host["B"] # Undefined
    /\ \A e \in Endpoints : handshake[e] = "done"

\* C37: once the producer has handled a CancelIterator for reqId it holds no
\* Active Stream for that reqId, also when the CancelIterator arrived while
\* handleRequest was still awaiting the host method.  Only handleCancelIterator
\* takes a CancelIterator off the channel, so one has been handled once the
\* consumer has sent more of them than the channel still holds.
CancelsInFlight(e, r) ==
    Cardinality({i \in DOMAIN chan[e] : chan[e][i] = CancelIteratorMessage(r)})

CancelWasHandled(e, r) ==
    /\ r \in DOMAIN calls[Peer(e)]
    /\ calls[Peer(e)][r].cancelSent > CancelsInFlight(e, r)

C37_NoStreamAfterCancel ==
    \A e \in Endpoints : \A r \in DOMAIN asyncIterators[e] : ~CancelWasHandled(e, r)

====
